---------------------------- MODULE Spec2Model ----------------------------
(***************************************************************************)
(* Model of the query-criteria compiler of tornado-rest-framework          *)
(* (query.py): get_filter_expr / get_attribute_filter_expr compile a       *)
(* criteria document into a predicate tree, get_order_by compiles an       *)
(* ordering spec into orderings and join aliases.                          *)
(*                                                                         *)
(* Text.  A Python string is a sequence of atoms; the atom "." is the dot  *)
(* str.split('.') splits on, "-" and "+" are the sign characters           *)
(* get_direction looks at, every other atom is a run of characters holding *)
(* none of the three.                                                      *)
(*                                                                         *)
(* Documents.  A decoded JSON value is a record tagged by t: a dict holds  *)
(* kv, its (key, value) pairs in iteration order; a list holds items; a    *)
(* scalar holds an integer v.                                              *)
(*                                                                         *)
(* SQL.  The compiled predicate is a tree, as SQLAlchemy builds one; Eval  *)
(* gives its value on a row under SQL's three-valued logic.  and_() of no  *)
(* clause is the true conjunction, or_() of none the false disjunction.    *)
(***************************************************************************)
EXTENDS Integers, Sequences, FiniteSets, TLC

VARIABLES
    db,            \* the rows of every table (the executor's store)
    pc,            \* "idle" before the call, "done" after it
    arg_model,     \* the entity type the call is made on
    arg_criteria,  \* the criteria document handed to get_filter_expr
    ret_filter,    \* what get_filter_expr returned or raised
    arg_attribute, \* the attribute handed to get_attribute_filter_expr
    arg_order_by,  \* the ordering spec handed to get_order_by
    ret_order_by,  \* what get_order_by returned or raised
    arg_include,   \* the include list handed to the inclusion functions
    ret_include_mask,  \* what get_include_mask returned
    ret_included,  \* what included_relations_type(model)(include) returned or raised
    arg_entities,  \* the entities of a query result, handed to the serializer
    arg_mask,      \* the include mask handed to serialize_relations
    arg_fields_conf,  \* the fields_conf of the resource
    load_order,    \* the order a set of entities iterates and rows load in
    ret_relations, \* what serialize_relations returned or raised
    ret_items,     \* what serialize returned or raised for each entity
    ret_many,      \* what get_many_relations returned
    stack,         \* the calls of serialize_relations in progress, outermost first
    depth,         \* the deepest nesting of serialize_relations in the call so far
    shared,        \* the relation records in memory while they serve serialize
    remaining,     \* the entities of the result not serialized yet
    cached,        \* the Cached decorator's is_sync, work_in_background, default_result
    func,          \* the decorated function: its value for each argument
    memcached,     \* the cache server: the value under each key, None where absent
    callbacks,     \* the callbacks spawned on the IO loop, oldest first
    coroutine,     \* the call of async_wrapped in flight, if any
    completed,     \* per key: a background computation stored its result and
                   \* the slot was not invalidated, updated or expired since
    last_call,     \* the last call of the wrapper that returned
    unawaited,     \* the cache operations sent without await, not yet carried out
    stale,         \* per key: the value it holds was stored before the latest
                   \* invalidate of the key
    returned,      \* per key: the result of the first call that returned since
                   \* the key was last invalidated, updated or expired
    arg_calls,     \* two calls of a decorated function: their args and kwargs
    ret_slots,     \* what get_slot_name returned for each of the two calls
    arg_parser,    \* the arguments added to a RequestParser, and bundle_errors
    arg_request,   \* the request handed to parse_args: the value of each name
    ret_args       \* what parse_args returned or raised

query_vars == <<arg_criteria, ret_filter, arg_attribute, arg_order_by, ret_order_by>>
include_vars == <<arg_include, ret_include_mask, ret_included>>
serialize_vars == <<arg_entities, arg_mask, arg_fields_conf, load_order,
                    ret_relations, ret_items, ret_many, stack, depth,
                    shared, remaining>>

cache_vars == <<cached, func, memcached, callbacks, coroutine, completed, last_call,
                unawaited, stale, returned>>

key_vars == <<arg_calls, ret_slots>>
parse_vars == <<arg_parser, arg_request, ret_args>>

vars == <<db, pc, arg_model, query_vars, include_vars, serialize_vars, cache_vars,
          key_vars, parse_vars>>

-----------------------------------------------------------------------------
(* Bounds *)

\* scalar operands and column values range over 1..MaxValue
MaxValue == 2
\* the longest ordering list
MaxOrderings == 2

\* SQL NULL, outside the values
NULL == 0 - 1

Values == 1..MaxValue

-----------------------------------------------------------------------------
(* Text *)

Dot == "."

\* str.split('.'): the segments between the dots, empty ones kept
RECURSIVE Split(_)
Split(s) ==
    IF s = <<>> THEN << <<>> >>
    ELSE IF Head(s) = Dot THEN << <<>> >> \o Split(Tail(s))
    ELSE LET r == Split(Tail(s))
         IN  << <<Head(s)>> \o Head(r) >> \o Tail(r)

\* '.'.join(segments)
RECURSIVE Join(_)
Join(segs) ==
    IF segs = <<>> THEN <<>>
    ELSE IF Len(segs) = 1 THEN Head(segs)
    ELSE Head(segs) \o <<Dot>> \o Join(Tail(segs))

\* the text of a name that holds no dot and no sign
Str(name) == <<name>>

-----------------------------------------------------------------------------
(* Documents *)

Scalar(v) == [t |-> "scalar", v |-> v]
List(items) == [t |-> "list", items |-> items]
Dict(kv) == [t |-> "dict", kv |-> kv]
Dict1(k, v) == Dict(<< <<k, v>> >>)
Dict2(k1, v1, k2, v2) == Dict(<< <<k1, v1>>, <<k2, v2>> >>)
NoDoc == [t |-> "none"]

\* isinstance(x, dict)
IsDict(x) == x.t = "dict"

-----------------------------------------------------------------------------
(* Results: a returned value or a raised exception *)

Ok(v) == [ok |-> TRUE, val |-> v, err |-> "none"]
Raise(kind) == [ok |-> FALSE, val |-> [k |-> "none"], err |-> kind]
NoResult == [ok |-> FALSE, val |-> [k |-> "none"], err |-> "not called"]

\* the first exception of a sequence of results, in order
RECURSIVE FirstError(_)
FirstError(rs) ==
    IF rs = <<>> THEN NoResult
    ELSE IF ~Head(rs).ok THEN Head(rs)
    ELSE FirstError(Tail(rs))

AllOk(rs) == \A i \in 1..Len(rs) : rs[i].ok

Vals(rs) == [i \in 1..Len(rs) |-> rs[i].val]

\* before any call: no argument given, nothing returned
QueryIdle ==
    /\ arg_criteria = NoDoc
    /\ ret_filter = NoResult
    /\ arg_attribute = NoDoc
    /\ arg_order_by = NoDoc
    /\ ret_order_by = NoResult

IncludeIdle ==
    /\ arg_include = NoDoc
    /\ ret_include_mask = NoResult
    /\ ret_included = NoResult

SerializeIdle ==
    /\ arg_entities = <<>>
    /\ arg_mask = NoDoc
    /\ arg_fields_conf = NoDoc
    /\ load_order = "asc"
    /\ ret_relations = NoResult
    /\ ret_items = <<>>
    /\ ret_many = NoResult
    /\ stack = <<>>
    /\ depth = 0
    /\ shared = NoResult
    /\ remaining = {}

CacheIdle ==
    /\ cached = NoDoc
    /\ func = <<>>
    /\ memcached = <<>>
    /\ callbacks = <<>>
    /\ coroutine = NoDoc
    /\ completed = <<>>
    /\ last_call = NoDoc
    /\ unawaited = {}
    /\ stale = <<>>
    /\ returned = <<>>

KeyIdle ==
    /\ arg_calls = <<>>
    /\ ret_slots = <<>>

ParseIdle ==
    /\ arg_parser = NoDoc
    /\ arg_request = NoDoc
    /\ ret_args = NoResult

-----------------------------------------------------------------------------
(* The schema the embedding application maps: two entity types.            *)
(*   Customer(id, name, last_order_id)                                     *)
(*     last_order   many-to-one  -> Order     last_order_id = Order.id     *)
(*     orders       one-to-many  -> Order     id = Order.customer_id       *)
(*     wish         many-to-many -> Order     through table wish           *)
(*     order_totals association proxy of orders to Order.total             *)
(*   Order(id, customer_id, total)                                         *)
(*     customer     many-to-one  -> Customer  customer_id = Customer.id    *)

NoName == "none"

ColumnProperty ==
    [kind |-> "column", direction |-> NoName, target |-> NoName,
     local |-> NoName, remote |-> NoName, secondary |-> NoName,
     sec_local |-> NoName, sec_remote |-> NoName,
     local_attr |-> NoName, remote_attr |-> NoName]

RelationshipProperty(direction, target, local, remote) ==
    [kind |-> "relationship", direction |-> direction, target |-> target,
     local |-> local, remote |-> remote, secondary |-> NoName,
     sec_local |-> NoName, sec_remote |-> NoName,
     local_attr |-> NoName, remote_attr |-> NoName]

SecondaryRelationship(target, local, remote, secondary, sec_local, sec_remote) ==
    [kind |-> "relationship", direction |-> "MANYTOMANY", target |-> target,
     local |-> local, remote |-> remote, secondary |-> secondary,
     sec_local |-> sec_local, sec_remote |-> sec_remote,
     local_attr |-> NoName, remote_attr |-> NoName]

AssociationProxy(local_attr, remote_attr) ==
    [kind |-> "proxy", direction |-> NoName, target |-> NoName,
     local |-> NoName, remote |-> NoName, secondary |-> NoName,
     sec_local |-> NoName, sec_remote |-> NoName,
     local_attr |-> local_attr, remote_attr |-> remote_attr]

Schema ==
    [Customer |->
        [id |-> ColumnProperty,
         name |-> ColumnProperty,
         last_order_id |-> ColumnProperty,
         last_order |-> RelationshipProperty("MANYTOONE", "Order", "last_order_id", "id"),
         orders |-> RelationshipProperty("ONETOMANY", "Order", "id", "customer_id"),
         wish |-> SecondaryRelationship("Order", "id", "id", "wish",
                                        "customer_id", "order_id"),
         order_totals |-> AssociationProxy("orders", "total")],
     Order |->
        [id |-> ColumnProperty,
         customer_id |-> ColumnProperty,
         total |-> ColumnProperty,
         customer |-> RelationshipProperty("MANYTOONE", "Customer", "customer_id", "id")]]

Entities == DOMAIN Schema

\* hasattr(cls, name), for a name given as text: one atom naming an attribute
HasAttr(cls, name) == Len(name) = 1 /\ name[1] \in DOMAIN Schema[cls]

\* getattr(owner, name) on a mapped class (alias 0) or on an alias of it: the
\* attribute, bound to its owner
GetAttr(cls, alias, name) ==
    LET p == Schema[cls][name[1]]
    IN  [kind |-> p.kind, cls |-> cls, alias |-> alias, key |-> name[1],
         direction |-> p.direction, target |-> p.target,
         local |-> p.local, remote |-> p.remote, secondary |-> p.secondary,
         sec_local |-> p.sec_local, sec_remote |-> p.sec_remote,
         local_attr |-> p.local_attr, remote_attr |-> p.remote_attr]

\* a scalar SQL expression standing where an attribute is expected
ColumnElement(e) == [kind |-> "element", expr |-> e]

IsColumn(attribute) == attribute.kind = "column"
IsColumnElement(attribute) == attribute.kind = "element"
IsAssociationProxy(attribute) == attribute.kind = "proxy"
IsRelationship(attribute) == attribute.kind = "relationship"
\* hasattr(attribute, 'property')
HasProperty(attribute) == attribute.kind \in {"column", "relationship"}

-----------------------------------------------------------------------------
(* Predicate trees *)

Col(cls, alias, key) == [k |-> "col", cls |-> cls, alias |-> alias, key |-> key]
ColOf(attribute) == Col(attribute.cls, attribute.alias, attribute.key)
Group(e) == [k |-> "group", e |-> e]
Cmp(op, lhs, operand) == [k |-> "cmp", op |-> op, lhs |-> lhs, operand |-> operand]
ColEq(l, r) == [k |-> "coleq", l |-> l, r |-> r]
And(clauses) == [k |-> "and", clauses |-> clauses]
Or(clauses) == [k |-> "or", clauses |-> clauses]
Not(e) == [k |-> "not", e |-> e]
Exists(from, where) == [k |-> "exists", from |-> from, where |-> where]
Count(from, where) == [k |-> "count", from |-> from, where |-> where]

\* the join condition of a relationship attribute (attribute.expression):
\* primaryjoin, and secondaryjoin when the relationship has a secondary table
JoinCondition(attribute) ==
    IF attribute.secondary = NoName
    THEN ColEq(Col(attribute.cls, 0, attribute.local),
               Col(attribute.target, 0, attribute.remote))
    ELSE And(<<ColEq(Col(attribute.cls, 0, attribute.local),
                     Col(attribute.secondary, 0, attribute.sec_local)),
               ColEq(Col(attribute.secondary, 0, attribute.sec_remote),
                     Col(attribute.target, 0, attribute.remote))>>)

\* the tables a subquery over the relationship selects from; the parent's
\* table is correlated to the enclosing query
JoinFrom(attribute) ==
    IF attribute.secondary = NoName THEN <<attribute.target>>
    ELSE <<attribute.secondary, attribute.target>>

\* the relationships declared with uselist=False
ScalarRelationships == {<<"Customer", "first_order">>}

\* the relationships declared with uselist=True
ListRelationships == {<<"Order", "buyers">>}

\* every relationship attribute taken as a list
NeverScalar(attribute) == FALSE

\* a relationship attribute declared with uselist=False, on which any() raises
IsScalar(attribute) == <<attribute.cls, attribute.key>> \in ScalarRelationships

\* relationship.any(criterion): EXISTS over the related rows
RelationshipAny(attribute, criterion) ==
    Exists(JoinFrom(attribute), And(<<JoinCondition(attribute), criterion>>))

-----------------------------------------------------------------------------
(* The filter compiler *)

primitive_operators ==
    {Str("$eq"), Str("$ne"), Str("$lt"), Str("$lte"), Str("$gt"), Str("$gte"),
     Str("$in"), Str("$nin"), Str("$like")}

relationship_operator_keys == {Str("$any"), Str("$all"), Str("$length")}

logical_operator_keys == {Str("$or"), Str("$and"), Str("$not")}

\* the function a logical operator applies to its clauses:
\* partial(get_filter_expr, model) at the document level,
\* partial(get_attribute_filter_expr, attribute, key=key) at the attribute level
DocumentScope(cls) == [level |-> "document", cls |-> cls]
\* the attribute level recursing as the document level does, on the
\* attribute's class
AttributeScopeAsDocument(attribute, key) ==
    IF attribute.kind = "element"
    THEN [level |-> "attribute", attribute |-> attribute, key |-> key]
    ELSE DocumentScope(attribute.cls)
AttributeScope(attribute, key) ==
    [level |-> "attribute", attribute |-> attribute, key |-> key]

\* the fold without reversed(): the first segment ends up innermost
RECURSIVE FoldChainForward(_, _)
FoldChainForward(rest, attr_criteria) ==
    IF rest = <<>> THEN attr_criteria
    ELSE FoldChainForward(Tail(rest), Dict1(Head(rest), attr_criteria))

\* for chain_attr in reversed(chain[1:]): attr_criteria = {chain_attr: attr_criteria}
RECURSIVE FoldChain(_, _)
FoldChain(rest, attr_criteria) ==
    IF rest = <<>> THEN attr_criteria
    ELSE Dict1(Head(rest), FoldChain(Tail(rest), attr_criteria))

\* attr_criteria = operand if isinstance(operand, dict) else {'$eq': operand}
AttrCriteria(operand) ==
    IF IsDict(operand) THEN operand ELSE Dict1(Str("$eq"), operand)

\* and_(*exprs) over the results of a loop that stops at the first exception
Conjoin(rs) == IF AllOk(rs) THEN Ok(And(Vals(rs))) ELSE FirstError(rs)

Disjoin(rs) == IF AllOk(rs) THEN Ok(Or(Vals(rs))) ELSE FirstError(rs)

\* '$not': not_(fn(clause))
Negate(r) == IF r.ok THEN Ok(Not(r.val)) ELSE r

\* the check that opens get_filter_expr's loop body, and what it raises
IsTopLevelOperator(op) ==
    op \in primitive_operators \/ op \in relationship_operator_keys

\* a compiler that skips the misplaced operator instead of raising
TopLevelOperatorIgnored(op) == Ok(And(<<>>))

TopLevelOperatorError(op) == Raise("ValueError")

\* '$all' without the inner negation
RelationshipAllNoInnerNot(attribute, criterion) ==
    Not(RelationshipAny(attribute, criterion))

\* '$all' that also asks for a related row
RelationshipAllNonEmpty(attribute, criterion) ==
    And(<<RelationshipAny(attribute, And(<<>>)),
          Not(RelationshipAny(attribute, Not(criterion)))>>)

\* '$all': not_(attr.any(not_(criterion)))
RelationshipAll(attribute, criterion) ==
    Not(RelationshipAny(attribute, Not(criterion)))

\* the subquery without the join to the parent row
ManyToOneExistsUncorrelated(attribute, criterion) ==
    Exists(<<attribute.target>>, And(<<criterion>>))

\* Query(target_class).filter(attribute.expression).filter(criterion).exists()
ManyToOneExists(attribute, criterion) ==
    Exists(<<attribute.target>>, And(<<JoinCondition(attribute), criterion>>))

RECURSIVE get_filter_expr(_, _)
RECURSIVE get_filter_key(_, _, _)
RECURSIVE get_attribute_filter_expr(_, _, _)
RECURSIVE get_attribute_filter_key(_, _, _, _)
RECURSIVE logical_operators(_, _, _)
RECURSIVE relationship_operators(_, _, _)
RECURSIVE association_proxy_operators(_, _, _)
RECURSIVE length_operator(_, _)
RECURSIVE ApplyScope(_, _)

ApplyScope(fn, item) ==
    IF fn.level = "document" THEN get_filter_expr(fn.cls, item)
    ELSE get_attribute_filter_expr(fn.attribute, item, fn.key)

\* the clauses a generator over `clauses` yields, each compiled by fn; iterating
\* a dict yields its keys, iterating a number raises TypeError
CompileClauses(fn, clauses) ==
    IF clauses.t = "list"
    THEN [i \in 1..Len(clauses.items) |-> ApplyScope(fn, clauses.items[i])]
    ELSE IF clauses.t = "dict"
    THEN [i \in 1..Len(clauses.kv) |-> Raise("AttributeError")]
    ELSE <<Raise("TypeError")>>

logical_operators(op, fn, operand) ==
    IF op = Str("$or") THEN Disjoin(CompileClauses(fn, operand))
    ELSE IF op = Str("$and") THEN Conjoin(CompileClauses(fn, operand))
    ELSE Negate(ApplyScope(fn, operand))

length_operator(attr, criteria) ==
    LET crit == IF IsDict(criteria) THEN criteria ELSE Dict1(Str("$eq"), criteria)
        rel == IF IsAssociationProxy(attr)
               THEN GetAttr(attr.cls, attr.alias, Str(attr.local_attr))
               ELSE attr
    IN  get_attribute_filter_expr(
            ColumnElement(Count(JoinFrom(rel), JoinCondition(rel))),
            crit, rel.key)

relationship_operators(op, attr, criteria) ==
    IF op = Str("$any")
    THEN LET r == get_filter_expr(attr.target, criteria)
         IN  IF ~r.ok THEN r
             ELSE IF IsScalar(attr) THEN Raise("InvalidRequestError")
             ELSE Ok(RelationshipAny(attr, r.val))
    ELSE IF op = Str("$all")
    THEN LET r == get_filter_expr(attr.target, criteria)
         IN  IF ~r.ok THEN r
             ELSE IF IsScalar(attr) THEN Raise("InvalidRequestError")
             ELSE Ok(RelationshipAll(attr, r.val))
    ELSE length_operator(attr, criteria)

association_proxy_operators(op, attr, criteria) ==
    LET local == GetAttr(attr.cls, attr.alias, Str(attr.local_attr))
        remote == GetAttr(local.target, 0, Str(attr.remote_attr))
    IN  IF op = Str("$any")
        THEN LET r == get_attribute_filter_expr(remote, criteria, remote.key)
             IN  IF r.ok THEN Ok(RelationshipAny(local, r.val)) ELSE r
        ELSE IF op = Str("$all")
        THEN LET r == get_attribute_filter_expr(remote, criteria, remote.key)
             IN  IF r.ok THEN Ok(RelationshipAll(local, r.val)) ELSE r
        ELSE length_operator(attr, criteria)

\* one pass of get_attribute_filter_expr's loop: the expr of one (op, operand)
get_attribute_filter_key(attribute, op, operand, key) ==
    IF op \in primitive_operators
    THEN IF ~((HasProperty(attribute) /\ IsColumn(attribute))
              \/ IsColumnElement(attribute))
         THEN Raise("ValueError")
         ELSE IF IsColumnElement(attribute)
         THEN Ok(Cmp(op[1], Group(attribute.expr), operand))
         ELSE Ok(Cmp(op[1], ColOf(attribute), operand))
    ELSE IF op \in relationship_operator_keys
    THEN IF IsAssociationProxy(attribute)
         THEN association_proxy_operators(op, attribute, operand)
         ELSE IF ~HasProperty(attribute) THEN Raise("AttributeError")
         ELSE IF IsRelationship(attribute)
                 /\ attribute.direction \in {"ONETOMANY", "MANYTOMANY"}
         THEN relationship_operators(op, attribute, operand)
         ELSE Raise("ValueError")
    ELSE IF op \in logical_operator_keys
    THEN logical_operators(op, AttributeScope(attribute, key), operand)
    ELSE \* subfield
         LET chain == Split(op)
             field == chain[1]
         IN  IF ~HasProperty(attribute) THEN Raise("AttributeError")
             ELSE IF ~IsRelationship(attribute)
                     \/ attribute.direction # "MANYTOONE"
             THEN Raise("ValueError")
             ELSE IF ~HasAttr(attribute.target, field) THEN Raise("AttributeError")
             ELSE LET attr == GetAttr(attribute.target, 0, field)
                      attr_criteria == FoldChain(Tail(chain), AttrCriteria(operand))
                      r == get_attribute_filter_expr(attr, attr_criteria, field[1])
                  IN  IF r.ok
                      THEN Ok(ManyToOneExists(attribute, r.val))
                      ELSE r

get_attribute_filter_expr(attribute, criteria, key) ==
    IF ~IsDict(criteria) THEN Raise("AttributeError")
    ELSE Conjoin([i \in 1..Len(criteria.kv) |->
                    get_attribute_filter_key(attribute, criteria.kv[i][1],
                                             criteria.kv[i][2], key)])

\* get_filter_expr joining the keys of a document with or_
get_filter_expr_or(model, criteria) ==
    IF ~IsDict(criteria) THEN Raise("AttributeError")
    ELSE Disjoin([i \in 1..Len(criteria.kv) |->
                    get_filter_key(model, criteria.kv[i][1], criteria.kv[i][2])])

\* one pass of get_filter_expr's loop: the expr of one (op, operand)
get_filter_key(model, op, operand) ==
    IF IsTopLevelOperator(op) THEN TopLevelOperatorError(op)
    ELSE IF op \in logical_operator_keys
    THEN logical_operators(op, DocumentScope(model), operand)
    ELSE \* attribute
         LET chain == Split(op)
         IN  IF ~HasAttr(model, chain[1]) THEN Raise("AttributeError")
             ELSE LET attr == GetAttr(model, 0, chain[1])
                      attr_criteria == FoldChain(Tail(chain), AttrCriteria(operand))
                  IN  get_attribute_filter_expr(attr, attr_criteria, chain[1][1])

get_filter_expr(model, criteria) ==
    IF ~IsDict(criteria) THEN Raise("AttributeError")
    ELSE Conjoin([i \in 1..Len(criteria.kv) |->
                    get_filter_key(model, criteria.kv[i][1], criteria.kv[i][2])])

-----------------------------------------------------------------------------
(* The store and SQL's three-valued evaluation of a predicate tree *)

CustomerIds == {1, 2}
OrderIds == {1, 2}

\* the stores the calls are checked on: customer 1 is named, its last order is
\* order 2 and it wishes both orders; customer 2 has no last order and wishes
\* none; who placed each order, customer 2's name and order 2's total vary
Database(name2, customer1, customer2, total2) ==
    [Customer |-> {[id |-> 1, name |-> 1, last_order_id |-> 2],
                   [id |-> 2, name |-> name2, last_order_id |-> NULL]},
     Order |-> {[id |-> 1, customer_id |-> customer1, total |-> 1],
                [id |-> 2, customer_id |-> customer2, total |-> total2]},
     wish |-> {[customer_id |-> 1, order_id |-> 1],
               [customer_id |-> 1, order_id |-> 2]}]

Databases ==
    {Database(n, c1, c2, t) :
        n \in {NULL, MaxValue}, c1 \in CustomerIds \cup {NULL},
        c2 \in CustomerIds \cup {NULL}, t \in Values \cup {NULL}}

Tables == {"Customer", "Order", "wish"}
NoRow == [id |-> NULL]

\* no table bound to a row
EmptyEnv == [t \in Tables |-> NoRow]

\* the environment of the outermost query: one row of the queried entity
RowEnv(cls, row) == [EmptyEnv EXCEPT ![cls] = row]

Bool3(b) == IF b THEN "T" ELSE "F"

Not3(v) == IF v = "T" THEN "F" ELSE IF v = "F" THEN "T" ELSE "N"

And3(vs) ==
    IF \E i \in 1..Len(vs) : vs[i] = "F" THEN "F"
    ELSE IF \E i \in 1..Len(vs) : vs[i] = "N" THEN "N"
    ELSE "T"

Or3(vs) ==
    IF \E i \in 1..Len(vs) : vs[i] = "T" THEN "T"
    ELSE IF \E i \in 1..Len(vs) : vs[i] = "N" THEN "N"
    ELSE "F"

\* the value a primitive operator's SQL gives for a column value and an operand
\* ($like is ilike: on text holding no wildcard and no letter case, equality)
Compare(op, v, operand) ==
    IF v = NULL THEN "N"
    ELSE IF op \in {"$in", "$nin"}
    THEN IF operand.t # "list" THEN "N"
         ELSE LET found == \E i \in 1..Len(operand.items) :
                              operand.items[i].t = "scalar" /\ operand.items[i].v = v
              IN  IF op = "$in" THEN Bool3(found) ELSE Not3(Bool3(found))
    ELSE IF operand.t # "scalar" THEN "N"
    ELSE CASE op = "$eq" -> Bool3(v = operand.v)
           [] op = "$ne" -> Bool3(v # operand.v)
           [] op = "$lt" -> Bool3(v < operand.v)
           [] op = "$lte" -> Bool3(v <= operand.v)
           [] op = "$gt" -> Bool3(v > operand.v)
           [] op = "$gte" -> Bool3(v >= operand.v)
           [] op = "$like" -> Bool3(v = operand.v)

\* every way to bind the tables of a FROM list to rows of the store d
RECURSIVE Bindings(_, _, _)
Bindings(from, env, d) ==
    IF from = <<>> THEN {env}
    ELSE UNION {Bindings(Tail(from), [env EXCEPT ![Head(from)] = r], d) :
                    r \in d[Head(from)]}

RECURSIVE Eval(_, _, _)
RECURSIVE ValueOf(_, _, _)

\* the value of a scalar expression: a column of the bound row, or a count
ValueOf(e, env, d) ==
    CASE e.k = "col" -> env[e.cls][e.key]
      [] e.k = "group" -> ValueOf(e.e, env, d)
      [] e.k = "count" ->
            Cardinality({b \in Bindings(e.from, env, d) : Eval(e.where, b, d) = "T"})

\* the truth value ("T", "F" or "N" for SQL's unknown) of predicate e
Eval(e, env, d) ==
    CASE e.k = "cmp" -> Compare(e.op, ValueOf(e.lhs, env, d), e.operand)
      [] e.k = "coleq" ->
            LET l == ValueOf(e.l, env, d)
                r == ValueOf(e.r, env, d)
            IN  IF l = NULL \/ r = NULL THEN "N" ELSE Bool3(l = r)
      [] e.k = "and" -> And3([i \in 1..Len(e.clauses) |-> Eval(e.clauses[i], env, d)])
      [] e.k = "or" -> Or3([i \in 1..Len(e.clauses) |-> Eval(e.clauses[i], env, d)])
      [] e.k = "not" -> Not3(Eval(e.e, env, d))
      [] e.k = "exists" ->
            Bool3(\E b \in Bindings(e.from, env, d) : Eval(e.where, b, d) = "T")

-----------------------------------------------------------------------------
(* The criteria documents the compiler is called on *)

\* the key of a dotted path of names
Key(names) == Join([i \in 1..Len(names) |-> Str(names[i])])

Attrs(cls) == DOMAIN Schema[cls]
ManyToOneOf(cls) ==
    {a \in Attrs(cls) : Schema[cls][a].kind = "relationship"
                        /\ Schema[cls][a].direction = "MANYTOONE"}
ToManyOf(cls) ==
    {a \in Attrs(cls) : Schema[cls][a].kind = "relationship"
                        /\ Schema[cls][a].direction \in {"ONETOMANY", "MANYTOMANY"}}
ProxiesOf(cls) == {a \in Attrs(cls) : Schema[cls][a].kind = "proxy"}
\* the column of each entity the documents compare
ValueColumn(cls) == IF cls = "Customer" THEN "name" ELSE "total"
TargetOf(cls, rel) == Schema[cls][rel].target

AllValues == List([i \in 1..MaxValue |-> Scalar(i)])

Comparisons ==
    {Dict1(Str(op), Scalar(v)) :
        op \in {"$eq", "$ne", "$lt", "$lte", "$gt", "$gte", "$like"}, v \in Values}
Memberships ==
    {Dict1(Str(op), l) : op \in {"$in", "$nin"}, l \in {List(<<Scalar(1)>>), AllValues}}

\* a few attribute criteria on a column, the empty one among them
SmallCriteria ==
    {Dict1(Str("$eq"), Scalar(1)), Dict1(Str("$lt"), Scalar(MaxValue)),
     Dict1(Str("$nin"), List(<<Scalar(1)>>)), Dict(<<>>)}

CompoundCriteria ==
    {Dict1(Str("$not"), c) : c \in SmallCriteria}
    \cup {Dict1(Str("$or"), List(<<c1, c2>>)) : c1, c2 \in SmallCriteria}
    \cup {Dict1(Str("$and"), List(<<c1, c2>>)) : c1, c2 \in SmallCriteria}
    \cup {Dict2(Str("$gte"), Scalar(1), Str("$ne"), Scalar(v)) : v \in Values}

ColumnCriteria == Comparisons \cup Memberships \cup SmallCriteria \cup CompoundCriteria

\* what may stand as the value of a field key: criteria, or a bare operand
SmallOperands == SmallCriteria \cup {Scalar(v) : v \in Values}

\* documents on a column of cls
FieldDocs(cls) ==
    {Dict1(Str(ValueColumn(cls)), c) : c \in ColumnCriteria \cup {Scalar(v) : v \in Values}}
    \cup {Dict1(Str("id"), c) : c \in SmallOperands}

SmallDocs(cls) ==
    {Dict1(Str(ValueColumn(cls)), c) : c \in SmallOperands} \cup {Dict(<<>>)}

\* criteria on a to-many relationship or proxy, over sub-criteria subs
ToManyCriteria(subs) ==
    {Dict1(Str(op), d) : op \in {"$any", "$all"}, d \in subs}
    \cup {Dict1(Str("$length"), x) :
            x \in {Scalar(v) : v \in Values} \cup {Dict1(Str("$gte"), Scalar(1))}}

\* documents on one relationship of cls, over documents of the target
RelationDocs(cls) ==
    {Dict1(Str(r), d) : r \in ManyToOneOf(cls), d \in SmallDocs("Customer") \cup SmallDocs("Order")}
    \cup {Dict1(Key(<<r, c>>), x) :
            r \in ManyToOneOf(cls), c \in {"name", "total"}, x \in SmallOperands}
    \cup UNION {{Dict1(Str(r), c) : c \in ToManyCriteria(SmallDocs(TargetOf(cls, r)))} :
                    r \in ToManyOf(cls)}
    \cup {Dict1(Str(r), c) : r \in ProxiesOf(cls), c \in ToManyCriteria(SmallCriteria)}


\* {a: {b: {c: x}}} for the names a, b, c
RECURSIVE NestedDoc(_, _)
NestedDoc(names, x) ==
    IF Len(names) = 1 THEN Dict1(Str(names[1]), x)
    ELSE Dict1(Str(Head(names)), NestedDoc(Tail(names), x))

\* the same criterion on a chain of relationships, written dotted, nested and mixed
ChainForms(names, x) ==
    LET n == Len(names)
    IN  {Dict1(Key(names), x)}
        \cup {Dict1(Key(SubSeq(names, 1, i)), NestedDoc(SubSeq(names, i + 1, n), x)) :
                i \in 1..(n - 1)}
        \cup {Dict1(Str(names[1]), Dict1(Key(SubSeq(names, 2, n)), x))}

\* chains of two and three relationships from cls to a column
Chains(cls) ==
    UNION {UNION {{<<r1, r2, c>>} \cup {<<r1, r2, r3, c>> : r3 \in ManyToOneOf(TargetOf(TargetOf(cls, r1), r2))} :
                    r2 \in ManyToOneOf(TargetOf(cls, r1)) \cup ToManyOf(TargetOf(cls, r1)),
                    c \in {"name", "total"}} :
            r1 \in ManyToOneOf(cls)}

ChainDocs(cls) ==
    UNION {ChainForms(ch, x) : ch \in Chains(cls),
                               x \in {Scalar(1), Dict1(Str("$lt"), Scalar(MaxValue)),
                                      AllValues}}

\* relationships reached through relationships
NestedDocs(cls) ==
    UNION {{Dict1(Str(r), d) : d \in {x \in RelationDocs(TargetOf(cls, r)) :
                                        x.kv[1][2] \in {Scalar(1),
                                                        Dict1(Str("$any"), Dict1(Str("total"), Scalar(1))),
                                                        Dict1(Str("$all"), Dict1(Str("total"), Scalar(1))),
                                                        Dict1(Str("$length"), Scalar(1))}}} :
            r \in ManyToOneOf(cls)}
    \cup UNION {{Dict1(Str(r), Dict1(Str(op), d)) :
                    op \in {"$any", "$all"},
                    d \in {x \in RelationDocs(TargetOf(cls, r)) :
                                x.kv[1][2] \in {Scalar(1), Dict1(Str("name"), Scalar(1))}}} :
                r \in ToManyOf(cls)}

\* a few documents of every shape, the building blocks of the logical ones
TinyDocs(cls) ==
    {Dict1(Str(ValueColumn(cls)), Scalar(1)),
     Dict1(Str(ValueColumn(cls)), Dict1(Str("$lt"), Scalar(MaxValue))),
     Dict1(Str("id"), Dict1(Str("$nin"), List(<<Scalar(1)>>)))}
    \cup {Dict1(Str(r), Dict1(Str(ValueColumn(TargetOf(cls, r))), Scalar(1))) :
            r \in ManyToOneOf(cls)}
    \cup {Dict1(Str(r), Dict1(Str("$all"), Dict1(Str(ValueColumn(TargetOf(cls, r))), Scalar(1)))) :
            r \in ToManyOf(cls)}
    \cup {Dict1(Str(r), Dict1(Str("$any"), Dict1(Str("$eq"), Scalar(1)))) :
            r \in ProxiesOf(cls)}

\* two documents as one: the keys of the first, then the keys of the second
Merge(d1, d2) == Dict(d1.kv \o d2.kv)

\* documents of several field keys
SiblingDocs(cls) ==
    {Merge(p[1], p[2]) :
        p \in {q \in TinyDocs(cls) \X TinyDocs(cls) : q[1].kv[1][1] # q[2].kv[1][1]}}

\* documents at the document level misusing an operator, at the root or nested
OperatorDocs ==
    {Dict1(Str(op), Scalar(1)) : op \in {"$eq", "$ne", "$lt", "$lte", "$gt", "$gte", "$like"}}
    \cup {Dict1(Str(op), AllValues) : op \in {"$in", "$nin"}}
    \cup {Dict1(Str(op), Dict(<<>>)) : op \in {"$any", "$all"}}
    \cup {Dict1(Str("$length"), Scalar(1))}

LogicalDocs(cls) ==
    LET base == TinyDocs(cls) \cup {Dict(<<>>)}
        not1 == {Dict1(Str("$not"), d) : d \in base \cup SiblingDocs(cls)}
        bin == {Dict1(Str(op), List(<<d1, d2>>)) :
                    op \in {"$and", "$or"}, d1, d2 \in TinyDocs(cls)}
    IN  not1
        \cup {Dict1(Str("$not"), d) : d \in not1}
        \cup bin
        \cup {Dict1(Str("$not"), Dict1(Str("$not"), d)) : d \in {b \in bin : b.kv[1][2].items[1] # b.kv[1][2].items[2]}}
        \cup {Dict1(Str(op), List(<<>>)) : op \in {"$and", "$or"}}
        \cup {Dict1(Str(a), Dict1(Str("$not"), Dict1(Str("$not"), c))) :
                a \in {ValueColumn(cls)}, c \in SmallCriteria}
        \cup {Dict1(Str(a), Dict1(Str("$not"), Dict1(Str("$not"), c))) :
                a \in ToManyOf(cls), c \in ToManyCriteria({Dict1(Str("total"), Scalar(1))})}
        \cup {Dict1(Str(a), Dict1(Str("$not"), Dict1(Str("$not"), c))) :
                a \in ManyToOneOf(cls), c \in SmallDocs("Customer") \cup SmallDocs("Order")}

\* an operator key at the document level: alone, beside valid keys, and under
\* one, two and three logical operators
MisuseDocs(cls) ==
    LET ok == Dict1(Str(ValueColumn(cls)), Scalar(1))
        lvl0 == OperatorDocs
                \cup {Merge(ok, d) : d \in OperatorDocs}
                \cup {Merge(d, ok) : d \in OperatorDocs}
        wrap(ds) == {Dict1(Str("$not"), d) : d \in ds}
                    \cup {Dict1(Str(op), List(<<d>>)) : op \in {"$and", "$or"}, d \in ds}
                    \cup {Dict1(Str(op), List(<<ok, d>>)) : op \in {"$and", "$or"}, d \in ds}
        lvl1 == wrap(OperatorDocs)
        lvl2 == wrap({Dict1(Str("$not"), d) : d \in OperatorDocs}
                     \cup {Dict1(Str("$or"), List(<<ok, d>>)) : d \in OperatorDocs})
        lvl3 == {Dict1(Str("$and"), List(<<ok, Dict1(Str("$not"), Dict1(Str("$or"), List(<<ok, d>>)))>>)) :
                    d \in OperatorDocs}
    IN  lvl0 \cup lvl1 \cup lvl2 \cup lvl3

\* keys that name nothing, operators on attributes of the wrong kind, clauses
\* of the wrong shape
InvalidDocs(cls) ==
    {Dict1(Str("zzz"), Scalar(1)),
     Dict1(Key(<<"zzz", "name">>), Scalar(1)),
     Dict1(<<>>, Scalar(1)),
     Dict1(Str(ValueColumn(cls)), Dict1(Str("$any"), Dict(<<>>))),
     Dict1(Str(ValueColumn(cls)), Dict1(Str("zzz"), Scalar(1))),
     Dict1(Key(<<ValueColumn(cls), "zzz">>), Scalar(1)),
     Dict1(Str("$not"), Scalar(1)),
     Dict1(Str("$and"), Scalar(1)),
     Dict1(Str("$or"), Dict1(Str("id"), Scalar(1))),
     Dict1(Str("$and"), Dict(<<>>))}
    \cup {Dict1(Str(r), d) :
            r \in Attrs(cls) \ {"id", "name", "total", "customer_id", "last_order_id"},
            d \in {Scalar(1), Dict1(Str("$eq"), Scalar(1)), Dict1(Str("zzz"), Scalar(1)),
                   Dict1(Str("$any"), Dict1(Str("zzz"), Scalar(1))),
                   Dict1(Str("$length"), Dict1(Str("$any"), Dict(<<>>))),
                   Dict1(Str("$length"), Dict1(Str("id"), Scalar(1))),
                   Dict1(Str("$length"), Dict1(Str("$not"), Dict1(Str("$lt"), Scalar(MaxValue)))),
                   Dict1(Str("$any"), Dict(<<>>)), Dict1(Str("id"), Scalar(1)),
                   Dict1(Str("$not"), Scalar(1))}}

Criteria(cls) ==
    FieldDocs(cls) \cup SmallDocs(cls) \cup RelationDocs(cls) \cup ChainDocs(cls)
    \cup NestedDocs(cls) \cup SiblingDocs(cls) \cup LogicalDocs(cls)
    \cup MisuseDocs(cls) \cup InvalidDocs(cls)

-----------------------------------------------------------------------------
(* Calls *)

InitFilter ==
    /\ db \in Databases
    /\ pc = "idle"
    /\ arg_model = NoName
    /\ QueryIdle
    /\ IncludeIdle
    /\ SerializeIdle
    /\ CacheIdle
    /\ KeyIdle
    /\ ParseIdle

\* a call of get_filter_expr(model, criteria)
Filter ==
    /\ pc = "idle"
    /\ \E m \in Entities : \E c \in Criteria(m) :
        /\ arg_model' = m
        /\ arg_criteria' = c
        /\ ret_filter' = get_filter_expr(m, c)
    /\ pc' = "filtered"
    /\ UNCHANGED <<db, key_vars, parse_vars, arg_attribute, arg_order_by, ret_order_by, include_vars,
                   serialize_vars, cache_vars>>

SpecFilter == InitFilter /\ [][Filter]_vars

-----------------------------------------------------------------------------
(* Properties of the filter compiler *)

Filtered == pc = "filtered"

Operators == primitive_operators \cup relationship_operator_keys
IsFieldKey(k) == k \notin Operators /\ k \notin logical_operator_keys

\* an operator is a key of the document, or of a sub-document under $and, $or, $not
RECURSIVE HasDocumentLevelOperator(_)
HasDocumentLevelOperator(doc) ==
    /\ doc.t = "dict"
    /\ \E i \in 1..Len(doc.kv) :
        LET k == doc.kv[i][1]
            v == doc.kv[i][2]
        IN  \/ k \in Operators
            \/ /\ k \in {Str("$and"), Str("$or")}
               /\ v.t = "list"
               /\ \E j \in 1..Len(v.items) : HasDocumentLevelOperator(v.items[j])
            \/ k = Str("$not") /\ HasDocumentLevelOperator(v)

RootKeys(doc) == {doc.kv[i][1] : i \in 1..Len(doc.kv)}

\* the value of a compiled predicate on one row of cls
On(r, cls, row) == Eval(r.val, RowEnv(cls, row), db)

\* both fail, or both compile to predicates with the same value on every row
SamePredicate(r1, r2, cls) ==
    /\ r1.ok = r2.ok
    /\ r1.ok => \A row \in db[cls] : On(r1, cls, row) = On(r2, cls, row)

\* C1: get_filter_expr fails whenever a primitive or relationship operator is a
\* key at the document level, at the root or in a sub-document under any
\* nesting of $and/$or/$not.
C1_DocumentLevelOperatorFails ==
    Filtered /\ HasDocumentLevelOperator(arg_criteria) => ~ret_filter.ok

\* the operator sits under logical operators only, and the call raised ValueError
C1_Witness ==
    /\ Filtered
    /\ HasDocumentLevelOperator(arg_criteria)
    /\ RootKeys(arg_criteria) \cap Operators = {}
    /\ Len(arg_criteria.kv) = 1
    /\ arg_criteria.kv[1][1] = Str("$and")
    /\ ~ret_filter.ok /\ ret_filter.err = "ValueError"

\* a document of two distinct field keys
TwoFieldKeys(doc) ==
    /\ doc.t = "dict" /\ Len(doc.kv) = 2
    /\ doc.kv[1][1] # doc.kv[2][1]
    /\ IsFieldKey(doc.kv[1][1]) /\ IsFieldKey(doc.kv[2][1])

WrappedInAnd(doc) ==
    Dict1(Str("$and"), List(<<Dict1(doc.kv[1][1], doc.kv[1][2]),
                              Dict1(doc.kv[2][1], doc.kv[2][2])>>))

\* C2: {a: X, b: Y} compiles to a predicate with the same truth value on every
\* row as {$and: [{a: X}, {b: Y}]}.
C2_SiblingKeysAreConjunction ==
    Filtered /\ TwoFieldKeys(arg_criteria) =>
        SamePredicate(ret_filter,
                      get_filter_expr(arg_model, WrappedInAnd(arg_criteria)),
                      arg_model)

\* a row the first key alone accepts and the two keys together reject
C2_Witness ==
    /\ Filtered /\ TwoFieldKeys(arg_criteria) /\ ret_filter.ok
    /\ \E row \in db[arg_model] :
        /\ On(ret_filter, arg_model, row) = "F"
        /\ On(get_filter_expr(arg_model, Dict1(arg_criteria.kv[1][1], arg_criteria.kv[1][2])),
              arg_model, row) = "T"
    /\ \E row \in db[arg_model] : On(ret_filter, arg_model, row) = "T"


\* a document of the one key k
SingleKey(doc) == doc.t = "dict" /\ Len(doc.kv) = 1
TheKey(doc) == doc.kv[1][1]
TheValue(doc) == doc.kv[1][2]

\* k names an attribute of cls of the given kind
NamesToMany(cls, k) ==
    HasAttr(cls, k) /\ k[1] \in ToManyOf(cls) \cup ProxiesOf(cls)
NamesManyToOne(cls, k) == HasAttr(cls, k) /\ k[1] \in ManyToOneOf(cls)

\* the relationship a to-many attribute reads its related rows through
RelationOf(cls, name) ==
    IF Schema[cls][name].kind = "proxy" THEN Schema[cls][Schema[cls][name].local_attr]
    ELSE Schema[cls][name]

\* the rows of the store related to a parent row through relationship rel
RelatedRows(rel, parent) ==
    IF rel.secondary = NoName
    THEN {t \in db[rel.target] :
            parent[rel.local] # NULL /\ parent[rel.local] = t[rel.remote]}
    ELSE {t \in db[rel.target] :
            \E link \in db[rel.secondary] :
                /\ link[rel.sec_local] # NULL /\ link[rel.sec_local] = parent[rel.local]
                /\ link[rel.sec_remote] # NULL /\ link[rel.sec_remote] = t[rel.remote]}

\* sub-criteria P of a to-many attribute compiled on its own: a document on the
\* target for a relationship, attribute criteria on the remote attribute for a
\* proxy
SubCriteria(cls, name, P) ==
    IF Schema[cls][name].kind = "proxy"
    THEN get_attribute_filter_expr(
            GetAttr(RelationOf(cls, name).target, 0, Str(Schema[cls][name].remote_attr)),
            P, Schema[cls][name].remote_attr)
    ELSE get_filter_expr(RelationOf(cls, name).target, P)

\* the document is {rel: {$all: P}} on a to-many relationship or proxy rel
IsAllDoc(cls, doc) ==
    /\ SingleKey(doc) /\ NamesToMany(cls, TheKey(doc))
    /\ SingleKey(TheValue(doc)) /\ TheKey(TheValue(doc)) = Str("$all")

AllRel(cls, doc) == RelationOf(cls, TheKey(doc)[1])
AllSub(cls, doc) == SubCriteria(cls, TheKey(doc)[1], TheValue(TheValue(doc)))

\* C3: {rel: {$all: P}} on a to-many relationship or proxy is not(any(not(P)))
\* over the related rows: true for a parent iff not(P) is true of none of its
\* related rows, hence true for a parent with no related row.
C3_AllIsNotAnyNot ==
    Filtered /\ IsAllDoc(arg_model, arg_criteria) =>
        /\ ret_filter.ok = AllSub(arg_model, arg_criteria).ok
        /\ ret_filter.ok =>
            \A parent \in db[arg_model] :
                LET rel == AllRel(arg_model, arg_criteria)
                    sub == AllSub(arg_model, arg_criteria)
                IN  On(ret_filter, arg_model, parent) =
                        Bool3(\A t \in RelatedRows(rel, parent) :
                                Not3(On(sub, rel.target, t)) # "T")

\* one parent has no related row and passes, another has a related row that
\* fails P and is rejected
C3_Witness ==
    /\ Filtered /\ IsAllDoc(arg_model, arg_criteria) /\ ret_filter.ok
    /\ \E parent \in db[arg_model] :
        /\ RelatedRows(AllRel(arg_model, arg_criteria), parent) = {}
        /\ On(ret_filter, arg_model, parent) = "T"
    /\ \E parent \in db[arg_model] :
        /\ \E t \in RelatedRows(AllRel(arg_model, arg_criteria), parent) :
                On(AllSub(arg_model, arg_criteria), AllRel(arg_model, arg_criteria).target, t) = "F"
        /\ On(ret_filter, arg_model, parent) = "F"

IsDoubleNot(doc) ==
    /\ SingleKey(doc) /\ TheKey(doc) = Str("$not")
    /\ SingleKey(TheValue(doc)) /\ TheKey(TheValue(doc)) = Str("$not")

\* the document is {a: {$not: {$not: C}}} for a field key a
IsAttributeDoubleNot(doc) ==
    /\ SingleKey(doc) /\ IsFieldKey(TheKey(doc))
    /\ IsDoubleNot(TheValue(doc))

Inner(doc) == TheValue(TheValue(doc))

\* C5: {$not: {$not: P}} compiles to a predicate with the same truth value as
\* P on every row, at the document level and, as {a: {$not: {$not: C}}}
\* against {a: C}, at the attribute level.
C5_DoubleNegation ==
    /\ Filtered /\ IsDoubleNot(arg_criteria) =>
            SamePredicate(ret_filter, get_filter_expr(arg_model, Inner(arg_criteria)),
                          arg_model)
    /\ Filtered /\ IsAttributeDoubleNot(arg_criteria) =>
            SamePredicate(ret_filter,
                          get_filter_expr(arg_model,
                                          Dict1(TheKey(arg_criteria),
                                                Inner(TheValue(arg_criteria)))),
                          arg_model)

\* a doubly negated attribute criterion that is true on one row and unknown on
\* another
C5_Witness ==
    /\ Filtered /\ IsAttributeDoubleNot(arg_criteria) /\ ret_filter.ok
    /\ \E row \in db[arg_model] : On(ret_filter, arg_model, row) = "T"
    /\ \E row \in db[arg_model] : On(ret_filter, arg_model, row) = "N"


\* the segments name a chain of many-to-one relationships from cls ending in a
\* column
RECURSIVE IsManyToOneChain(_, _)
IsManyToOneChain(cls, segs) ==
    IF Len(segs) = 1
    THEN HasAttr(cls, segs[1]) /\ Schema[cls][segs[1][1]].kind = "column"
    ELSE /\ NamesManyToOne(cls, segs[1])
         /\ IsManyToOneChain(TargetOf(cls, segs[1][1]), Tail(segs))

\* every way to write the chain: each run of consecutive segments a dotted key,
\* the runs nested, x innermost
RECURSIVE Forms(_, _)
Forms(segs, x) ==
    UNION {{Dict1(Join(SubSeq(segs, 1, i)), inner) :
                inner \in (IF i = Len(segs) THEN {x}
                           ELSE Forms(SubSeq(segs, i + 1, Len(segs)), x))} :
            i \in 1..Len(segs)}

\* the document is {"a.b.c": V} on a chain of many-to-one relationships
IsDottedChain(cls, doc) ==
    /\ SingleKey(doc)
    /\ Len(Split(TheKey(doc))) >= 2
    /\ IsManyToOneChain(cls, Split(TheKey(doc)))

\* C6: the dotted key {"a.b.c": V} on a chain of many-to-one relationships
\* compiles to the same predicate tree as the nested {a: {b: {c: V}}} and as
\* every mixed form such as {a: {"b.c": V}}.
C6_DottedEqualsNested ==
    Filtered /\ IsDottedChain(arg_model, arg_criteria) =>
        \A f \in Forms(Split(TheKey(arg_criteria)), TheValue(arg_criteria)) :
            get_filter_expr(arg_model, f) = ret_filter

\* a chain of two relationships and a column, compiled, true on some row
C6_Witness ==
    /\ Filtered /\ IsDottedChain(arg_model, arg_criteria)
    /\ Len(Split(TheKey(arg_criteria))) = 3
    /\ Cardinality(Forms(Split(TheKey(arg_criteria)), TheValue(arg_criteria))) = 4
    /\ TheValue(arg_criteria).t = "scalar"
    /\ ret_filter.ok
    /\ \E row \in db[arg_model] : On(ret_filter, arg_model, row) = "T"

\* the document is {rel: {field: C}} on a many-to-one relationship rel and a
\* column field of its target
IsManyToOneDoc(cls, doc) ==
    /\ SingleKey(doc) /\ NamesManyToOne(cls, TheKey(doc))
    /\ SingleKey(TheValue(doc))
    /\ IsManyToOneChain(TargetOf(cls, TheKey(doc)[1]), <<TheKey(TheValue(doc))>>)

-----------------------------------------------------------------------------
(* The ordering compiler *)

\* a Python str value
Text(s) == [t |-> "str", s |-> s]

\* get_direction keeping '+' as part of the path
get_direction_minus_only(path) ==
    IF path = <<>> THEN Raise("IndexError")
    ELSE IF Head(path) = "-" THEN Ok([path |-> Tail(path), direction |-> 0 - 1])
    ELSE Ok([path |-> path, direction |-> 1])

get_direction(path) ==
    IF path = <<>> THEN Raise("IndexError")
    ELSE IF Head(path) = "-" THEN Ok([path |-> Tail(path), direction |-> 0 - 1])
    ELSE IF Head(path) = "+" THEN Ok([path |-> Tail(path), direction |-> 1])
    ELSE Ok([path |-> path, direction |-> 1])

\* a traversal that asks only for a relationship, of any direction
IsAnyRelation(attr) == IsRelationship(attr)

\* the test a traversed segment must pass: a many-to-one relationship
IsManyToOneRelation(attr) ==
    IsRelationship(attr) /\ attr.direction = "MANYTOONE"

\* joins.append((alias, attr)) skipped when the relationship is joined already
AppendJoinOnce(joins, alias, attr) ==
    IF \E i \in 1..Len(joins) :
            joins[i].attr.cls = attr.cls /\ joins[i].attr.key = attr.key
    THEN joins
    ELSE Append(joins, [alias |-> alias, attr |-> attr])

\* joins.append((alias, attr))
AppendJoin(joins, alias, attr) == Append(joins, [alias |-> alias, attr |-> attr])

\* aliased(cls): a new alias, unlike every alias made before in the call
Aliased(cls, made) == [cls |-> cls, id |-> made + 1]

\* the loop over fields[1:]: from attr, through every further field; made
\* counts the aliases the call has made
RECURSIVE Traverse(_, _, _, _)
Traverse(attr, rest, joins, made) ==
    IF rest = <<>> THEN Ok([attr |-> attr, joins |-> joins, made |-> made])
    ELSE IF ~HasProperty(attr) THEN Raise("AttributeError")
    ELSE IF ~IsManyToOneRelation(attr) THEN Raise("ValueError")
    ELSE LET alias == Aliased(attr.target, made)
         IN  IF ~HasAttr(attr.target, Head(rest)) THEN Raise("AttributeError")
             ELSE Traverse(GetAttr(attr.target, alias.id, Head(rest)), Tail(rest),
                           AppendJoin(joins, alias, ColOf(attr)), made + 1)

\* one pass of get_order_by's loop, on one item of the list
OrderItem(model, item, joins, made) ==
    IF item.t # "str" THEN Raise("TypeError")
    ELSE LET d == get_direction(item.s)
         IN  IF ~d.ok THEN d
             ELSE LET fields == Split(d.val.path)
                  IN  IF ~HasAttr(model, fields[1]) THEN Raise("AttributeError")
                      ELSE LET r == Traverse(GetAttr(model, 0, fields[1]), Tail(fields),
                                             joins, made)
                           IN  IF ~r.ok THEN r
                               ELSE IF ~HasProperty(r.val.attr) THEN Raise("AttributeError")
                               ELSE IF ~IsColumn(r.val.attr) THEN Raise("ValueError")
                               ELSE Ok([ordering |->
                                            [column |-> ColOf(r.val.attr),
                                             direction |-> IF d.val.direction > 0
                                                           THEN "asc" ELSE "desc"],
                                        joins |-> r.val.joins,
                                        made |-> r.val.made])

RECURSIVE OrderLoop(_, _, _, _, _)
OrderLoop(model, items, orderings, joins, made) ==
    IF items = <<>> THEN Ok([orderings |-> orderings, joins |-> joins])
    ELSE LET r == OrderItem(model, Head(items), joins, made)
         IN  IF ~r.ok THEN r
             ELSE OrderLoop(model, Tail(items), Append(orderings, r.val.ordering),
                            r.val.joins, r.val.made)

get_order_by(model, spec) ==
    OrderLoop(model, IF spec.t = "list" THEN spec.items ELSE <<spec>>, <<>>, <<>>, 0)

-----------------------------------------------------------------------------
(* The ordering specs the compiler is called on *)

\* paths of every kind from cls: columns, chains of many-to-one relationships,
\* chains through to-many relationships, names that are no column
PlainPaths(cls) ==
    {<<"id">>, <<ValueColumn(cls)>>, <<"zzz">>, <<"order_totals">>}
    \cup UNION {{<<r>>, <<r, "id">>, <<r, ValueColumn(TargetOf(cls, r))>>, <<r, "zzz">>} :
                    r \in ManyToOneOf(cls) \cup ToManyOf(cls)}
    \cup UNION {UNION {{<<r1, r2, "id">>, <<r1, r2>>} :
                        r2 \in ManyToOneOf(TargetOf(cls, r1)) \cup ToManyOf(TargetOf(cls, r1))} :
                    r1 \in ManyToOneOf(cls)}
    \cup {<<ValueColumn(cls), "id">>, <<"order_totals", "id">>}

SignedPaths(cls) ==
    {Key(p) : p \in PlainPaths(cls)}
    \cup {<<"-">> \o Key(p) : p \in PlainPaths(cls)}
    \cup {<<"+">> \o Key(p) : p \in {q \in PlainPaths(cls) : Len(q) <= 2 /\ q[1] # "zzz"}}
    \cup {<<>>, <<"-">>, <<"-", "-", "id">>}

RECURSIVE Lists(_, _)
Lists(S, n) ==
    IF n = 0 THEN {<<>>}
    ELSE Lists(S, n - 1) \cup {Append(l, x) : l \in Lists(S, n - 1), x \in S}

\* the paths used to build the longer lists
ListPaths(cls) ==
    {<<"id">>, <<"-", ValueColumn(cls)>>, <<"+", "id">>, <<"zzz">>}
    \cup UNION {{Key(<<r, "id">>), <<"-">> \o Key(<<r, "id">>),
                 <<"+">> \o Key(<<r, ValueColumn(TargetOf(cls, r))>>)} :
                    r \in ManyToOneOf(cls) \cup ToManyOf(cls)}
    \cup UNION {UNION {{<<"-">> \o Key(<<r1, r2, "id">>)} :
                        r2 \in ManyToOneOf(TargetOf(cls, r1)) \cup ToManyOf(TargetOf(cls, r1))} :
                    r1 \in ManyToOneOf(cls)}

OrderSpecs(cls) ==
    {Text(p) : p \in SignedPaths(cls)}
    \cup {List(<<Text(p)>>) : p \in SignedPaths(cls)}
    \cup {List([i \in 1..Len(l) |-> Text(l[i])]) : l \in Lists(ListPaths(cls), MaxOrderings)}

InitOrder ==
    /\ db = Database(NULL, 1, NULL, 1)
    /\ pc = "idle"
    /\ arg_model = NoName
    /\ QueryIdle
    /\ IncludeIdle
    /\ SerializeIdle
    /\ CacheIdle
    /\ KeyIdle
    /\ ParseIdle

\* a call of get_order_by(model, order_by)
OrderBy ==
    /\ pc = "idle"
    /\ \E m \in Entities : \E o \in OrderSpecs(m) :
        /\ arg_model' = m
        /\ arg_order_by' = o
        /\ ret_order_by' = get_order_by(m, o)
    /\ pc' = "ordered"
    /\ UNCHANGED <<db, key_vars, parse_vars, arg_criteria, ret_filter, arg_attribute, include_vars,
                   serialize_vars, cache_vars>>

SpecOrder == InitOrder /\ [][OrderBy]_vars

-----------------------------------------------------------------------------
(* Properties of the ordering compiler *)

Ordered == pc = "ordered"

\* the paths of an ordering spec: the list, or the one value given in its place
Items(spec) == IF spec.t = "list" THEN spec.items ELSE <<spec>>

\* a path without its sign prefix, and its segments
Stripped(p) == IF p # <<>> /\ Head(p) \in {"-", "+"} THEN Tail(p) ELSE p
Segments(item) == Split(Stripped(item.s))

\* a segment before the last is a one-to-many or many-to-many relationship
\* (reached through relationships)
RECURSIVE ToManyBeforeEnd(_, _)
ToManyBeforeEnd(cls, segs) ==
    /\ Len(segs) >= 2
    /\ HasAttr(cls, segs[1])
    /\ Schema[cls][segs[1][1]].kind = "relationship"
    /\ \/ Schema[cls][segs[1][1]].direction \in {"ONETOMANY", "MANYTOMANY"}
       \/ ToManyBeforeEnd(TargetOf(cls, segs[1][1]), Tail(segs))

\* C8: get_order_by fails for every ordering path with a non-final segment that
\* is a one-to-many or many-to-many relationship, wherever the path stands in
\* the list.
C8_ToManySegmentRejected ==
    Ordered /\ (\E i \in 1..Len(Items(arg_order_by)) :
                    ToManyBeforeEnd(arg_model, Segments(Items(arg_order_by)[i])))
        => ~ret_order_by.ok

\* the second path of a list goes through a to-many relationship after a
\* many-to-one one; the first path alone compiles
C8_Witness ==
    /\ Ordered /\ arg_order_by.t = "list" /\ Len(arg_order_by.items) = 2
    /\ get_order_by(arg_model, List(<<arg_order_by.items[1]>>)).ok
    /\ Len(Segments(arg_order_by.items[2])) = 3
    /\ NamesManyToOne(arg_model, Segments(arg_order_by.items[2])[1])
    /\ ToManyBeforeEnd(arg_model, Segments(arg_order_by.items[2]))
    /\ ~ret_order_by.ok /\ ret_order_by.err = "ValueError"

\* a path, after its optional sign, is a chain of many-to-one relationships
\* ending in a column
ValidPath(cls, item) ==
    item.t = "str" /\ item.s # <<>> /\ IsManyToOneChain(cls, Segments(item))

ValidSpec(cls, spec) ==
    \A i \in 1..Len(Items(spec)) : ValidPath(cls, Items(spec)[i])

\* the entity the last segment of a path belongs to
RECURSIVE EndClass(_, _)
EndClass(cls, segs) ==
    IF Len(segs) = 1 THEN cls ELSE EndClass(TargetOf(cls, segs[1][1]), Tail(segs))

Last(seq) == seq[Len(seq)]

\* C9: for a valid ordering spec get_order_by returns one ordering per path, in
\* input order, each on the column its path (sign removed) ends in, descending
\* iff the path starts with '-', ascending with '+' or no prefix; a single path
\* is treated as a one-element list.
C9_OneOrderingPerPath ==
    Ordered /\ ValidSpec(arg_model, arg_order_by) =>
        /\ ret_order_by.ok
        /\ Len(ret_order_by.val.orderings) = Len(Items(arg_order_by))
        /\ \A i \in 1..Len(Items(arg_order_by)) :
            LET item == Items(arg_order_by)[i]
                o == ret_order_by.val.orderings[i]
            IN  /\ o.column.key = Last(Segments(item))[1]
                /\ o.column.cls = EndClass(arg_model, Segments(item))
                /\ o.direction = IF Head(item.s) = "-" THEN "desc" ELSE "asc"
        /\ arg_order_by.t = "str" =>
                ret_order_by = get_order_by(arg_model, List(<<arg_order_by>>))

\* a list of a descending path through a relationship and a '+' path
C9_Witness ==
    /\ Ordered /\ ValidSpec(arg_model, arg_order_by)
    /\ arg_order_by.t = "list" /\ Len(arg_order_by.items) = 2
    /\ Head(arg_order_by.items[1].s) = "-"
    /\ Len(Segments(arg_order_by.items[1])) >= 2
    /\ Head(arg_order_by.items[2].s) = "+"
    /\ ret_order_by.val.orderings[1].direction = "desc"
    /\ ret_order_by.val.orderings[2].direction = "asc"

\* the number of joins the paths before the i-th one need
RECURSIVE JoinsBefore(_, _)
JoinsBefore(items, i) ==
    IF i = 1 THEN 0
    ELSE JoinsBefore(items, i - 1) + Len(Segments(items[i - 1])) - 1

\* C10: get_order_by makes one join alias per relationship traversal of each
\* path, appended in traversal order: the joins are as many as the sum over the
\* paths of (segments - 1), their aliases are pairwise distinct also when two
\* paths traverse the same relationship, each join is on the relationship its
\* segment names, owned by the alias of the hop before, and each ordering is on
\* the last alias of its own path.
C10_OneAliasPerTraversal ==
    Ordered /\ ret_order_by.ok =>
        LET items == Items(arg_order_by)
            joins == ret_order_by.val.joins
        IN  /\ Len(joins) = JoinsBefore(items, Len(items) + 1)
            /\ \A i, j \in 1..Len(joins) : i # j => joins[i].alias # joins[j].alias
            /\ \A i \in 1..Len(items) :
                LET segs == Segments(items[i])
                    base == JoinsBefore(items, i)
                IN  /\ \A h \in 1..(Len(segs) - 1) :
                        /\ joins[base + h].attr.key = segs[h][1]
                        /\ joins[base + h].attr.cls =
                                EndClass(arg_model, SubSeq(segs, 1, h))
                        /\ joins[base + h].alias.cls =
                                EndClass(arg_model, SubSeq(segs, 1, h + 1))
                        /\ joins[base + h].attr.alias =
                                IF h = 1 THEN 0 ELSE joins[base + h - 1].alias.id
                    /\ ret_order_by.val.orderings[i].column.alias =
                            IF Len(segs) = 1 THEN 0
                            ELSE joins[base + Len(segs) - 1].alias.id

\* two paths traverse the same relationship and get two aliases
C10_Witness ==
    /\ Ordered /\ ret_order_by.ok
    /\ Len(Items(arg_order_by)) = 2
    /\ Len(ret_order_by.val.joins) >= 2
    /\ Segments(Items(arg_order_by)[1])[1] = Segments(Items(arg_order_by)[2])[1]
    /\ ret_order_by.val.joins[1].attr = Last(ret_order_by.val.joins).attr
    /\ ret_order_by.val.joins[1].alias # Last(ret_order_by.val.joins).alias

-----------------------------------------------------------------------------
(* Inclusion (serialize.py): get_include_mask and included_relations_type. *)
(* A mask is a dict from a name to a mask: the set of its (key, mask)      *)
(* pairs; {} is the empty mask.                                            *)

\* the longest include list
MaxInclude == 3

\* an exception with its message
RaiseMsg(kind, msg) == [ok |-> FALSE, val |-> [k |-> "message", text |-> msg], err |-> kind]

\* item.split('.', 1): the text before the first dot and, where there is a
\* dot, the text after it
RECURSIVE SplitFirst(_)
SplitFirst(s) ==
    IF s = <<>> THEN << <<>> >>
    ELSE IF Head(s) = Dot THEN << <<>>, Tail(s) >>
    ELSE LET r == SplitFirst(Tail(s))
         IN  << <<Head(s)>> \o Head(r) >> \o Tail(r)

\* pre_mask: the first segments of the items that have a suffix
PreMaskKeys(include) ==
    {SplitFirst(item)[1] : item \in {i \in include : Len(SplitFirst(i)) = 2}}

\* pre_mask[key]: the suffixes of the items that start with key
PreMask(include, key) ==
    {SplitFirst(item)[2] :
        item \in {i \in include : Len(SplitFirst(i)) = 2 /\ SplitFirst(i)[1] = key}}

\* the second loop keeping what the first loop wrote
MaskUpdateKeepFirst(mask, assigned) ==
    mask \cup {q \in assigned : \A p \in mask : p[1] # q[1]}

\* mask[key] = ... for every pair of assigned, over what mask holds
MaskUpdate(mask, assigned) ==
    {p \in mask : \A q \in assigned : q[1] # p[1]} \cup assigned

\* get_include_mask(include), include a list or a set of texts given by its
\* elements: neither loop depends on the order of iteration
RECURSIVE get_include_mask(_)
get_include_mask(include) ==
    LET mask == {<<item, {}>> : item \in {i \in include : Len(SplitFirst(i)) = 1}}
    IN  MaskUpdate(mask,
            {<<key, get_include_mask(PreMask(include, key))>> :
                key \in PreMaskKeys(include)})

\* hasattr(cls, name) in place of the relationships map
IsAttrName(cls, name) == HasAttr(cls, name)

\* class_mapper(cls).relationships has the key name
IsRelationName(cls, name) ==
    HasAttr(cls, name) /\ Schema[cls][name[1]].kind = "relationship"

\* joinedload(...).joinedload(...): the relationships of the path, in order;
\* a KeyError of a relationships map becomes the ValueError of line 312
RECURSIVE LoadPath(_, _, _)
LoadPath(cls, parts, load) ==
    IF parts = <<>> THEN Ok(load)
    ELSE IF ~IsRelationName(cls, Head(parts))
    THEN RaiseMsg("ValueError", "No such relation")
    ELSE LoadPath(Schema[cls][Head(parts)[1]].target, Tail(parts),
                  Append(load, [cls |-> cls, key |-> Head(parts)[1]]))

\* included_relations_type(model_class)(string), for a decoded value
included_relations_type(model_class, string) ==
    IF string.t # "list" \/ \E i \in 1..Len(string.items) : string.items[i].t # "str"
    THEN RaiseMsg("ValueError", "Must be list of strings")
    ELSE LET rs == [i \in 1..Len(string.items) |->
                        LoadPath(model_class, Split(string.items[i].s), <<>>)]
         IN  IF AllOk(rs) THEN Ok([options |-> Vals(rs), parsed |-> string])
             ELSE FirstError(rs)

\* the include paths the calls are made with: relationships, nested ones,
\* columns, a proxy, unknown names and an empty segment
IncludePaths ==
    {Key(<<"orders">>), Key(<<"wish">>), Key(<<"last_order">>), Key(<<"customer">>),
     Key(<<"orders", "customer">>), Key(<<"customer", "orders">>),
     Key(<<"customer", "wish">>), Key(<<"last_order", "customer">>),
     Key(<<"orders", "customer", "wish">>), Key(<<"customer", "orders", "customer">>),
     Key(<<"name">>), Key(<<"orders", "total">>), Key(<<"order_totals">>),
     Key(<<"zzz">>), Key(<<"customer", "zzz">>), Key(<<"orders">>) \o <<Dot>>}

IncludeLists ==
    {List([i \in 1..Len(l) |-> Text(l[i])]) : l \in Lists(IncludePaths, MaxInclude)}

\* values that are no list of strings
NotIncludeLists ==
    {Scalar(1), Dict(<<>>), List(<<Text(Key(<<"orders">>)), Scalar(1)>>)}

Range(seq) == {seq[i] : i \in 1..Len(seq)}

InitInclude ==
    /\ db = Database(NULL, 1, NULL, 1)
    /\ pc = "idle"
    /\ arg_model = NoName
    /\ QueryIdle
    /\ IncludeIdle
    /\ SerializeIdle
    /\ CacheIdle
    /\ KeyIdle
    /\ ParseIdle

\* a call of get_include_mask(include)
IncludeMask ==
    /\ pc = "idle"
    /\ \E l \in IncludeLists :
        /\ arg_include' = l
        /\ ret_include_mask' = Ok(get_include_mask({l.items[i].s : i \in 1..Len(l.items)}))
    /\ pc' = "masked"
    /\ UNCHANGED <<db, key_vars, parse_vars, arg_model, query_vars, ret_included, serialize_vars, cache_vars>>

\* a call of included_relations_type(model_class)(include)
ParseInclude ==
    /\ pc = "idle"
    /\ \E m \in Entities : \E l \in IncludeLists \cup NotIncludeLists :
        /\ arg_model' = m
        /\ arg_include' = l
        /\ ret_included' = included_relations_type(m, l)
    /\ pc' = "parsed"
    /\ UNCHANGED <<db, key_vars, parse_vars, query_vars, ret_include_mask, serialize_vars, cache_vars>>

NextInclude == IncludeMask \/ ParseInclude

SpecInclude == InitInclude /\ [][NextInclude]_vars

-----------------------------------------------------------------------------
(* Properties of inclusion *)

Masked == pc = "masked"
Parsed == pc = "parsed"

\* the mask of a set of paths given by their segments: one key per first
\* segment, over the mask of the rests of the paths that start with it
RECURSIVE MaskOfSegments(_)
MaskOfSegments(paths) ==
    {<<k, MaskOfSegments({Tail(p) : p \in {q \in paths : Len(q) > 1 /\ Head(q) = k}})>> :
        k \in {Head(p) : p \in paths}}

\* C11: get_include_mask turns a list of dotted paths into the nested mask: one
\* key per distinct first segment, the empty mask under a first segment that
\* occurs only without a suffix, the mask built from all its suffixes under one
\* that occurs with suffixes.
C11_IncludeMaskIsNestedMask ==
    Masked =>
        LET mask == ret_include_mask.val
            items == {arg_include.items[i].s : i \in 1..Len(arg_include.items)}
        IN  /\ ret_include_mask.ok
            /\ \A p, q \in mask : p[1] = q[1] => p = q
            /\ {p[1] : p \in mask} = {SplitFirst(i)[1] : i \in items}
            /\ \A p \in mask :
                (\A i \in items : SplitFirst(i)[1] = p[1] => Len(SplitFirst(i)) = 1)
                    => p[2] = {}
            /\ mask = MaskOfSegments({Split(i) : i \in items})

\* ['a', 'b.c', 'b.d'] gives {a: {}, b: {c: {}, d: {}}}, with a = wish,
\* b = customer, c = orders, d = wish
C11_Witness ==
    /\ Masked
    /\ arg_include = List(<<Text(Key(<<"wish">>)), Text(Key(<<"customer", "orders">>)),
                            Text(Key(<<"customer", "wish">>))>>)
    /\ ret_include_mask.val =
            {<<Str("wish"), {}>>,
             <<Str("customer"), {<<Str("orders"), {}>>, <<Str("wish"), {}>>}>>}

\* every segment of the path is a relationship of the entity reached there
RECURSIVE IsRelationPath(_, _)
IsRelationPath(cls, segs) ==
    \/ segs = <<>>
    \/ /\ Len(Head(segs)) = 1
       /\ Head(segs)[1] \in ManyToOneOf(cls) \cup ToManyOf(cls)
       /\ IsRelationPath(TargetOf(cls, Head(segs)[1]), Tail(segs))

IsListOfPaths(doc) ==
    doc.t = "list" /\ \A i \in 1..Len(doc.items) : doc.items[i].t = "str"

\* C12: included_relations_type fails with 'No such relation', returning no
\* load option, when a path of the include list has a segment that is no
\* relationship of the entity reached at its depth; otherwise it returns one
\* load option per path, on the relationships of the path, and the list.
C12_IncludeParserValidatesRelations ==
    Parsed /\ IsListOfPaths(arg_include) =>
        IF \A i \in 1..Len(arg_include.items) :
                IsRelationPath(arg_model, Split(arg_include.items[i].s))
        THEN /\ ret_included.ok
             /\ ret_included.val.parsed = arg_include
             /\ Len(ret_included.val.options) = Len(arg_include.items)
             /\ \A i \in 1..Len(arg_include.items) :
                    LET segs == Split(arg_include.items[i].s)
                        load == ret_included.val.options[i]
                    IN  /\ Len(load) = Len(segs)
                        /\ \A h \in 1..Len(segs) : load[h].key = segs[h][1]
        ELSE ret_included = RaiseMsg("ValueError", "No such relation")

\* the second path of the list is valid down to its last segment, which is a
\* column of the entity reached
C12_Witness ==
    /\ Parsed /\ IsListOfPaths(arg_include) /\ Len(arg_include.items) = 2
    /\ IsRelationPath(arg_model, Split(arg_include.items[1].s))
    /\ Len(Split(arg_include.items[2].s)) = 2
    /\ IsRelationPath(arg_model, <<Split(arg_include.items[2].s)[1]>>)
    /\ ~IsRelationPath(arg_model, Split(arg_include.items[2].s))
    /\ ret_included = RaiseMsg("ValueError", "No such relation")

-----------------------------------------------------------------------------
(* Serialization (serialize.py).  The entities are the rows of the store   *)
(* loaded as mapped objects; the serializer is checked on the schema above *)
(* with four more attributes:                                              *)
(*   Customer.first_order  one-to-many with uselist=False -> Order         *)
(*                                            id = Order.customer_id       *)
(*   Customer.wish_ids     association proxy of wish to Order.id           *)
(*   Order.buyer           many-to-one -> Customer                         *)
(*                                            customer_id = Customer.id    *)
(*   Order.buyers          many-to-one with uselist=True -> Customer       *)
(*                                            customer_id = Customer.id    *)
(* A serialized item is a function from field names to values; None is     *)
(* NULL for a value and NoName for a name.                                 *)

SerializedProperties ==
    [Customer |->
        [first_order |-> RelationshipProperty("ONETOMANY", "Order", "id", "customer_id"),
         wish_ids |-> AssociationProxy("wish", "id")],
     Order |->
        [buyer |-> RelationshipProperty("MANYTOONE", "Customer", "customer_id", "id"),
         buyers |-> RelationshipProperty("MANYTOONE", "Customer", "customer_id", "id")]]

\* class_mapper(cls).all_orm_descriptors: the properties of the class by key
class_mapper(cls) ==
    [a \in DOMAIN Schema[cls] \cup DOMAIN SerializedProperties[cls] |->
        IF a \in DOMAIN SerializedProperties[cls] THEN SerializedProperties[cls][a]
        ELSE Schema[cls][a]]

\* relation_attr.property.uselist: the declared one, or by default a list
\* unless the relationship is many-to-one
uselist(cls, name) ==
    IF <<cls, name>> \in ScalarRelationships THEN FALSE
    ELSE IF <<cls, name>> \in ListRelationships THEN TRUE
    ELSE class_mapper(cls)[name].direction # "MANYTOONE"

\* the row of a mapped object
Row(d, cls, id) == CHOOSE r \in d[cls] : r.id = id

RECURSIVE Ascending(_)
Ascending(ids) ==
    IF ids = {} THEN <<>>
    ELSE LET m == CHOOSE x \in ids : \A y \in ids : x <= y
         IN  <<m>> \o Ascending(ids \ {m})

Reverse(seq) == [i \in 1..Len(seq) |-> seq[Len(seq) + 1- i]]

\* the order a set of mapped objects iterates in, and rows load in
Iterate(ids, order) ==
    IF order = "asc" THEN Ascending(ids) ELSE Reverse(Ascending(ids))

\* the ids of the rows a relationship of an object joins to
RelatedIds(d, cls, id, name) ==
    LET Joined(p, row) ==
            IF p.secondary # NoName
            THEN {t.id : t \in {t \in d[p.target] :
                    \E x \in d[p.secondary] :
                        x[p.sec_local] = row[p.local] /\ x[p.sec_remote] = t[p.remote]}}
            ELSE {t.id : t \in {t \in d[p.target] :
                    row[p.local] # NULL /\ t[p.remote] = row[p.local]}}
    IN  Joined(class_mapper(cls)[name], Row(d, cls, id))

\* getattr(item, name) of a relationship: the list of the related objects, or
\* for a scalar relationship the first one loaded (no element: None)
GetRelated(d, cls, id, name, order) ==
    IF uselist(cls, name) THEN Ascending(RelatedIds(d, cls, id, name))
    ELSE LET First(loaded) == IF loaded = <<>> THEN <<>> ELSE <<Head(loaded)>>
         IN  First(Iterate(RelatedIds(d, cls, id, name), order))

\* getattr(model, attr) of a column or, as a list, of an association proxy
FieldValue(d, cls, id, attr) ==
    LET Proxied(p, rel, related) ==
            [i \in 1..Len(related) |-> Row(d, rel.target, related[i])[p.remote_attr]]
        Value(p) ==
            IF p.kind = "proxy"
            THEN Proxied(p, class_mapper(cls)[p.local_attr],
                         Ascending(RelatedIds(d, cls, id, p.local_attr)))
            ELSE Row(d, cls, id)[attr]
    IN  Value(class_mapper(cls)[attr])

\* get_column_mapping(model_class): the columns and the association proxies
get_column_mapping(model_class) ==
    {a \in DOMAIN class_mapper(model_class) :
        class_mapper(model_class)[a].kind \in {"column", "proxy"}}

\* no fields_conf
NoFieldsConf ==
    [exclude |-> [c \in Entities |-> {}], fields |-> [c \in Entities |-> {}]]

\* dict.get, dict.pop and item assignment of a serialized item
Get(item, f) == IF f \in DOMAIN item THEN item[f] ELSE NULL
Pop(item, f) == [g \in DOMAIN item \ {f} |-> item[g]]
Set(item, f, v) == [g \in DOMAIN item \cup {f} |-> IF g = f THEN v ELSE item[g]]

\* a name that is not None
Truthy(name) == name # NoName

NoMeta == [pk |-> NoName]

\* the one-to-many branch: the matching items are appended to item[k]
AttachMany(item, k, rel_items, meta) ==
    LET matching == SelectSeq(rel_items,
                        LAMBDA r : Get(item, meta.fk) = Get(r, meta.fk_pair))
    IN  IF matching = <<>> THEN item
        ELSE Set(item, k, (IF k \in DOMAIN item THEN item[k] ELSE <<>>) \o matching)

\* the one-to-one branch: for every matching item in turn the local join field
\* is popped and the item assigned to item[k]
RECURSIVE AttachOne(_, _, _, _)
AttachOne(r, k, rel_items, meta) ==
    IF rel_items = <<>> \/ ~r.ok THEN r
    ELSE IF Get(r.val, meta.fk) = Get(Head(rel_items), meta.fk_pair)
    THEN IF meta.fk \notin DOMAIN r.val THEN Raise("KeyError")
         ELSE AttachOne(Ok(Set(Pop(r.val, meta.fk), k, Head(rel_items))),
                        k, Tail(rel_items), meta)
    ELSE AttachOne(r, k, Tail(rel_items), meta)

\* the body of the loop over relations.items()
Attach(item, rel) ==
    IF rel.meta = NoMeta THEN Raise("AttributeError")
    ELSE IF Truthy(rel.meta.fk) /\ Truthy(rel.meta.fk_pair)
    THEN IF rel.meta.o2m /\ ~rel.meta.o2o
         THEN Ok(AttachMany(item, rel.name[1], rel.items, rel.meta))
         ELSE IF rel.meta.o2o
         THEN AttachOne(Ok(item), rel.name[1], rel.items, rel.meta)
         ELSE Ok(item)
    ELSE Ok(item)

RECURSIVE AttachAll(_, _)
AttachAll(r, relations) ==
    IF relations = <<>> \/ ~r.ok THEN r
    ELSE AttachAll(Attach(r.val, Head(relations)), Tail(relations))

\* serialize(model, fields_conf, relations) of the object id of class cls
serialize(d, cls, id, fields_conf, relations) ==
    LET kept == {f \in get_column_mapping(cls) :
                    /\ f \notin fields_conf.exclude[cls]
                    /\ fields_conf.fields[cls] # {} => f \in fields_conf.fields[cls]}
        ret == [f \in kept |-> FieldValue(d, cls, id, f)]
    IN  AttachAll(Ok(ret), relations)

\* find_association_proxy(model_class, relation): the key of the proxy whose
\* local_attr is the relationship
find_association_proxy(model_class, name) ==
    LET proxies == {a \in DOMAIN class_mapper(model_class) :
                        /\ class_mapper(model_class)[a].kind = "proxy"
                        /\ class_mapper(model_class)[a].local_attr = name}
    IN  IF proxies = {} THEN Raise("ValueError")
        ELSE Ok(CHOOSE a \in proxies : TRUE)

\* get_pk_column(model_class).key
get_pk_column(model_class) == "id"

\* direction == ONETOMANY taken as 'not many-to-many'
IsNotManyToMany(direction) == direction # "MANYTOMANY"

\* relation_attr.property.direction == ONETOMANY
IsOneToMany(direction) == direction = "ONETOMANY"

\* the _meta of a relationship: the cardinality flags and the join fields
RelationMeta(model_class, name, foreign_key) ==
    LET Meta(p, is_m2m) ==
            [pk |-> get_pk_column(p.target),
             fk |-> IF is_m2m THEN foreign_key ELSE p.local,
             fk_pair |-> IF is_m2m THEN NoName ELSE p.remote,
             m2m |-> is_m2m,
             o2o |-> IF ~is_m2m THEN ~uselist(model_class, name) ELSE FALSE,
             m2o |-> p.direction = "MANYTOONE",
             o2m |-> IsOneToMany(p.direction)]
    IN  Meta(class_mapper(model_class)[name],
             class_mapper(model_class)[name].direction = "MANYTOMANY")

\* relation_items: the related objects of the entities, as a set
RelationItems(d, model_class, entities, name, order) ==
    UNION {Range(GetRelated(d, model_class, id, name, order)) : id \in entities}

RECURSIVE serialize_relations(_, _, _, _, _, _, _)

\* the body of the loop over include_mask: relations[name]
SerializeRelation(d, model_class, entities, name, mask, fields_conf, meta, order) ==
    IF ~(Len(name) = 1 /\ name[1] \in DOMAIN class_mapper(model_class))
    THEN Raise("AttributeError")
    ELSE IF class_mapper(model_class)[name[1]].kind # "relationship"
    THEN Raise("AttributeError")
    ELSE
    LET Record(foreign_key, rels, items) ==
            IF ~foreign_key.ok THEN foreign_key
            ELSE IF ~rels.ok THEN rels
            ELSE IF ~AllOk(items) THEN FirstError(items)
            ELSE Ok([name |-> name, items |-> Vals(items), relations |-> rels.val,
                     meta |-> IF meta
                              THEN RelationMeta(model_class, name[1], foreign_key.val)
                              ELSE NoMeta])
        RelatedItems(p, rels, listed) ==
            [i \in 1..Len(listed) |->
                serialize(d, p.target, listed[i], fields_conf, rels.val)]
        WithItems(p, foreign_key, relation_items, rels) ==
            Record(foreign_key, rels,
                   RelatedItems(p, rels, Iterate(relation_items, order)))
        Related(p, foreign_key, relation_items) ==
            WithItems(p, foreign_key, relation_items,
                       serialize_relations(d, p.target, relation_items, mask,
                                           fields_conf, TRUE, order))
        Relation(p) ==
            Related(p,
                    IF p.direction = "MANYTOMANY"
                    THEN find_association_proxy(model_class, name[1])
                    ELSE Ok(p.local),
                    RelationItems(d, model_class, entities, name[1], order))
    IN  Relation(class_mapper(model_class)[name[1]])

\* serialize_relations(model_class, entities, include_mask, fields_conf, meta):
\* the records of the mask's names, in the order of the mask
serialize_relations(d, model_class, entities, include_mask, fields_conf, meta, order) ==
    LET rs == [i \in 1..Len(include_mask.kv) |->
                SerializeRelation(d, model_class, entities, include_mask.kv[i][1],
                                  include_mask.kv[i][2], fields_conf, meta, order)]
    IN  IF AllOk(rs) THEN Ok(Vals(rs)) ELSE FirstError(rs)

\* every item appended to the list
AppendAll(vals, items) == vals \o items

\* for item in items: if item not in vals: vals.append(item)
RECURSIVE AppendNew(_, _)
AppendNew(vals, items) ==
    IF items = <<>> THEN vals
    ELSE AppendNew(IF \E i \in 1..Len(vals) : vals[i] = Head(items) THEN vals
                   ELSE Append(vals, Head(items)),
                   Tail(items))

\* many_rels.setdefault(k, []) followed by the appends
Extend(many_rels, k, items) ==
    Set(many_rels, k, AppendNew(IF k \in DOMAIN many_rels THEN many_rels[k] ELSE <<>>, items))

\* a record's nested relations left out
NoNested(rel) == <<>>

\* v.get('_relations')
Nested(rel) == rel.relations

RECURSIVE ExtendAll(_, _, _)
ExtendAll(many_rels, new_rel, keys) ==
    IF keys = {} THEN many_rels
    ELSE LET rk == CHOOSE k \in keys : TRUE
         IN  ExtendAll(Extend(many_rels, rk, new_rel[rk]), new_rel, keys \ {rk})

RECURSIVE ManyRelations(_, _)

\* get_many_relations(serialized_relations): a dict from relation name to list
get_many_relations(serialized_relations) ==
    ManyRelations(<<>>, serialized_relations)

\* the loop of get_many_relations over the records left
ManyRelations(many_rels, records) ==
    IF records = <<>> THEN many_rels
    ELSE LET v == Head(records)
             own == IF v.meta.m2m \/ (v.meta.m2o /\ ~v.meta.o2o)
                    THEN Extend(many_rels, v.name[1], v.items)
                    ELSE many_rels
             new_rel == get_many_relations(Nested(v))
         IN  ManyRelations(ExtendAll(own, new_rel, DOMAIN new_rel), Tail(records))

-----------------------------------------------------------------------------
(* The calls of the serializer: a resource serializes the entities of a    *)
(* query result under an include mask (resource.py 136-139)                *)

\* a mask of one name, of two names in order
Mask1(k, m) == Dict(<< <<Str(k), m>> >>)
Mask2(k1, m1, k2, m2) == Dict(<< <<Str(k1), m1>>, <<Str(k2), m2>> >>)
Leaf == Dict(<<>>)

\* masks whose names are relationships of the entities they are reached on
ValidMasks(cls) ==
    IF cls = "Customer"
    THEN {Leaf, Mask1("orders", Leaf), Mask1("last_order", Leaf),
          Mask1("first_order", Leaf), Mask1("wish", Leaf),
          Mask2("orders", Leaf, "first_order", Leaf),
          Mask2("first_order", Leaf, "orders", Leaf),
          Mask2("wish", Leaf, "last_order", Leaf),
          Mask1("orders", Mask1("customer", Leaf)),
          Mask1("orders", Mask2("customer", Leaf, "buyer", Leaf)),
          Mask1("last_order", Mask1("customer", Mask1("wish", Leaf))),
          Mask2("wish", Leaf, "orders", Mask1("customer", Mask1("wish", Leaf))),
          Mask1("wish", Mask1("buyer", Mask1("first_order", Leaf))),
          Mask1("orders", Mask2("buyers", Leaf, "customer", Leaf))}
    ELSE {Leaf, Mask1("customer", Leaf), Mask1("buyer", Leaf),
          Mask2("customer", Leaf, "buyer", Leaf),
          Mask1("customer", Mask1("orders", Leaf)),
          Mask1("customer", Mask1("wish", Leaf)),
          Mask1("customer", Mask1("first_order", Leaf)),
          Mask1("customer", Mask2("wish", Leaf, "last_order", Leaf)),
          Mask2("customer", Mask1("wish", Leaf), "buyer", Mask1("wish", Leaf)),
          Mask2("customer", Leaf, "buyer", Mask1("first_order", Leaf)),
          Mask2("buyers", Leaf, "customer", Mask1("wish", Leaf))}

\* masks naming a column, a proxy or nothing the entity has
InvalidMasks(cls) ==
    {Mask1("zzz", Leaf), Mask1("id", Leaf),
     IF cls = "Customer" THEN Mask1("order_totals", Leaf)
     ELSE Mask1("customer", Mask1("name", Leaf))}

Masks(cls) == ValidMasks(cls) \cup InvalidMasks(cls)

\* fields_conf: none; the related key excluded; a field list without the
\* local key; the primary key of the orders excluded
FieldsConfs ==
    {NoFieldsConf,
     [NoFieldsConf EXCEPT !.exclude["Customer"] = {"id"}],
     [NoFieldsConf EXCEPT !.exclude["Customer"] = {"id"},
                          !.fields["Order"] = {"id", "total"}],
     [NoFieldsConf EXCEPT !.exclude["Order"] = {"id"}]}

\* the rows the serializer is run on: every way the two orders may point at
\* the customers
SerializedDatabases ==
    {Database(NULL, c1, c2, 1) :
        c1 \in CustomerIds \cup {NULL}, c2 \in CustomerIds \cup {NULL}}

InitSerialize ==
    /\ db \in SerializedDatabases
    /\ pc = "idle"
    /\ arg_model = NoName
    /\ QueryIdle
    /\ IncludeIdle
    /\ SerializeIdle
    /\ CacheIdle
    /\ KeyIdle
    /\ ParseIdle

\* relations = serialize_relations(model_class, results, mask, fields_conf,
\* meta=True); items = [serialize(x, fields_conf, relations) for x in results];
\* get_many_relations(relations)
Serialize ==
    /\ pc = "idle"
    /\ \E m \in Entities : \E ids \in SUBSET {r.id : r \in db[m]} :
       \E mask \in Masks(m) : \E fc \in FieldsConfs : \E o \in {"asc", "desc"} :
        LET Respond(relations, results, items) ==
                /\ arg_entities' = results
                /\ ret_relations' = relations
                /\ ret_items' = items
                /\ ret_many' = IF relations.ok /\ AllOk(items)
                               THEN Ok(get_many_relations(relations.val))
                               ELSE NoResult
            Results(relations, results) ==
                Respond(relations, results,
                        IF relations.ok
                        THEN [i \in 1..Len(results) |->
                                serialize(db, m, results[i], fc, relations.val)]
                        ELSE <<>>)
        IN  /\ arg_model' = m
            /\ arg_mask' = mask
            /\ arg_fields_conf' = fc
            /\ load_order' = o
            /\ Results(serialize_relations(db, m, ids, mask, fc, TRUE, o),
                       Ascending(ids))
    /\ pc' = "serialized"
    /\ UNCHANGED <<db, key_vars, parse_vars, query_vars, include_vars, cache_vars, stack, depth,
                   shared, remaining>>

SpecSerialize == InitSerialize /\ [][Serialize]_vars

-----------------------------------------------------------------------------
(* Properties of the serializer *)

Serialized == pc = "serialized"

\* the serializer ran to its end
SerializedAll == Serialized /\ ret_relations.ok /\ AllOk(ret_items)

\* the records of a relations mapping and of the mappings nested in it
RECURSIVE Records(_)
Records(relations) ==
    UNION {{relations[i]} \cup Records(relations[i].relations) :
            i \in 1..Len(relations)}

\* the entities behind the items of a top-level record, in the items' order
EntitiesOf(rel) ==
    Iterate(RelationItems(db, arg_model, Range(arg_entities), rel.name[1], load_order),
            load_order)

\* the related entity's remote join column equals the entity's local one
Joins(id, rel, related) ==
    LET p == class_mapper(arg_model)[rel.name[1]]
    IN  /\ Row(db, arg_model, id)[p.local] # NULL
        /\ Row(db, p.target, related)[p.remote] = Row(db, arg_model, id)[p.local]

\* the items of a record whose entities join to the entity, in order
RECURSIVE JoinedItems(_, _, _)
JoinedItems(id, rel, j) ==
    IF j > Len(rel.items) THEN <<>>
    ELSE (IF Joins(id, rel, EntitiesOf(rel)[j]) THEN <<rel.items[j]>> ELSE <<>>)
         \o JoinedItems(id, rel, j + 1)

\* C13: where serialize flattens a one-to-many relation into an entity, the
\* entity's output holds under the relation name the list of exactly the
\* related items whose remote join key equals the entity's join value (no list
\* where there is none), here without any fields_conf.
C13_OneToManyListHoldsJoinedItems ==
    SerializedAll /\ arg_fields_conf = NoFieldsConf =>
        \A i \in 1..Len(arg_entities) : \A r \in 1..Len(ret_relations.val) :
            LET rel == ret_relations.val[r]
                item == ret_items[i].val
            IN  rel.meta.o2m /\ ~rel.meta.o2o =>
                    (IF rel.name[1] \in DOMAIN item THEN item[rel.name[1]] ELSE <<>>)
                        = JoinedItems(arg_entities[i], rel, 1)

\* C14: for every included single-valued relation of an entity that has a
\* matching related item, the output holds that item itself under the relation
\* name and no longer holds the local join field, for each such relation when
\* several are included; here without any fields_conf.
C14_OneToOneItemInlined ==
    SerializedAll /\ arg_fields_conf = NoFieldsConf =>
        \A i \in 1..Len(arg_entities) : \A r \in 1..Len(ret_relations.val) :
            LET rel == ret_relations.val[r]
                item == ret_items[i].val
                joined == JoinedItems(arg_entities[i], rel, 1)
            IN  rel.meta.o2o /\ joined # <<>> =>
                    /\ rel.name[1] \in DOMAIN item
                    /\ item[rel.name[1]] \in Range(joined)
                    /\ rel.meta.fk \notin DOMAIN item

\* C15: no list of the mapping get_many_relations returns holds two equal
\* items, also when a many-to-many related entity is reached at several places
\* of the record tree.
C15_ManyRelationsHoldNoDuplicate ==
    Serialized /\ ret_many.ok =>
        \A k \in DOMAIN ret_many.val :
            \A i, j \in 1..Len(ret_many.val[k]) :
                i # j => ret_many.val[k][i] # ret_many.val[k][j]

\* both top-level records nest a wish record holding the same items
C15_Witness ==
    /\ Serialized /\ ret_many.ok /\ Len(ret_relations.val) = 2
    /\ \A r \in 1..2 :
        /\ Len(ret_relations.val[r].relations) = 1
        /\ ret_relations.val[r].relations[1].name = Str("wish")
        /\ Len(ret_relations.val[r].relations[1].items) = 2
    /\ Len(ret_many.val["wish"]) = 2

\* the records get_many_relations collects
Lifted(relations) ==
    {v \in Records(relations) : v.meta.m2m \/ (v.meta.m2o /\ ~v.meta.o2o)}

\* C16: get_many_relations walks the whole record tree: it has a key for every
\* relation name whose record at any depth is many-to-many or (many-to-one and
\* not one-to-one), and the list under the key holds the items of these
\* records and no other item.
C16_ManyRelationsWalkTheTree ==
    Serialized /\ ret_many.ok =>
        /\ DOMAIN ret_many.val = {v.name[1] : v \in Lifted(ret_relations.val)}
        /\ \A k \in DOMAIN ret_many.val :
            Range(ret_many.val[k]) =
                UNION {Range(v.items) :
                        v \in {w \in Lifted(ret_relations.val) : w.name[1] = k}}

\* under a one-to-many record, a many-to-one list record and a many-to-one
\* scalar record
C16_ListRecordLifted ==
    /\ Serialized /\ ret_many.ok /\ Len(ret_relations.val) = 1
    /\ Len(ret_relations.val[1].relations) = 2
    /\ ret_relations.val[1].relations[1].meta.m2o
    /\ ~ret_relations.val[1].relations[1].meta.o2o
    /\ ret_relations.val[1].relations[2].meta.o2o
    /\ ret_relations.val[1].relations[1].items # <<>>
    /\ DOMAIN ret_many.val = {"buyers"}

\* a many-to-many record two levels down, none at the top
C16_Witness ==
    /\ Serialized /\ ret_many.ok /\ Len(ret_relations.val) = 1
    /\ ~ret_relations.val[1].meta.m2m
    /\ Len(ret_relations.val[1].relations) = 1
    /\ ret_relations.val[1].relations[1].meta.m2m
    /\ ret_relations.val[1].relations[1].items # <<>>
    /\ Range(ret_many.val["wish"]) = Range(ret_relations.val[1].relations[1].items)

\* C17: in every _meta that serialize_relations produces exactly one of m2m,
\* m2o, o2m is true, and o2o implies not m2m.
C17_ExactlyOneCardinalityFlag ==
    Serialized /\ ret_relations.ok =>
        \A v \in Records(ret_relations.val) :
            /\ Cardinality({f \in {"m2m", "m2o", "o2m"} : v.meta[f]}) = 1
            /\ v.meta.o2o => ~v.meta.m2m

\* a tree with a many-to-many record, a many-to-one record and a one-to-many
\* record of a scalar relationship
C17_Witness ==
    /\ Serialized /\ ret_relations.ok
    /\ \E v \in Records(ret_relations.val) : v.meta.m2m /\ ~v.meta.o2o
    /\ \E v \in Records(ret_relations.val) : v.meta.m2o /\ v.meta.o2o
    /\ \E v \in Records(ret_relations.val) : v.meta.o2m /\ v.meta.o2o

\* every name of the mask, at every depth, is a relationship of the entity
\* reached there
RECURSIVE IsValidMask(_, _)
IsValidMask(cls, mask) ==
    \A i \in 1..Len(mask.kv) :
        /\ Len(mask.kv[i][1]) = 1
        /\ mask.kv[i][1][1] \in DOMAIN class_mapper(cls)
        /\ class_mapper(cls)[mask.kv[i][1][1]].kind = "relationship"
        /\ IsValidMask(class_mapper(cls)[mask.kv[i][1][1]].target, mask.kv[i][2])

\* C19: with a mask whose names are all valid, serialize_relations followed by
\* serialize on each entity raises nothing, for every entity set, data shape
\* and fields_conf.
C19_SerializationNeverRaises ==
    Serialized /\ IsValidMask(arg_model, arg_mask) =>
        ret_relations.ok /\ AllOk(ret_items)

-----------------------------------------------------------------------------
(* The error kind of the two compilers *)

NextCompile == Filter \/ OrderBy

\* calls of either compiler
SpecCompile == InitFilter /\ [][NextCompile]_vars

\* the document has one key, no operator, whose first segment names no
\* attribute of the entity
UnknownRootField(cls, doc) ==
    /\ IsDict(doc) /\ Len(doc.kv) = 1
    /\ IsFieldKey(doc.kv[1][1])
    /\ Head(Split(doc.kv[1][1])) # <<>>
    /\ ~HasAttr(cls, Head(Split(doc.kv[1][1])))

\* the ordering spec is one path whose first segment names no attribute
UnknownRootPath(cls, spec) ==
    /\ spec.t = "str" /\ spec.s # <<>>
    /\ Head(Segments(spec)) # <<>>
    /\ ~HasAttr(cls, Head(Segments(spec)))

\* C18: a failure of the filter compiler or of the ordering compiler is a
\* ValueError, here for a field or relationship name unknown at the root.
C18_UnknownNameIsValueError ==
    /\ Filtered /\ UnknownRootField(arg_model, arg_criteria)
        => ~ret_filter.ok /\ ret_filter.err = "ValueError"
    /\ Ordered /\ UnknownRootPath(arg_model, arg_order_by)
        => ~ret_order_by.ok /\ ret_order_by.err = "ValueError"

(* The Cached decorator (utils/cache/decorators.py) *)

\* the decorated function takes one positional argument, x
MaxArg == 2
MaxPending == 2

Args == 1..MaxArg

\* Python's None as a cached value or a result
None == NULL

\* the decorated functions: one returns None, one returns its argument
Functions == {[x \in Args |-> None], [x \in Args |-> x]}

\* what update_cache may store
NewValues == {MaxArg + 1}
DefaultResults == {None, 0}

\* Python values handed to a decorated function: an int, a str of characters
PyInt(n) == [t |-> "int", n |-> n, s |-> <<>>]
PyStr(cs) == [t |-> "str", n |-> 0, s |-> cs]

Digits == <<"0", "1", "2", "3", "4", "5", "6", "7", "8", "9">>

\* the decimal text of a natural number
RECURSIVE Decimal(_)
Decimal(n) ==
    IF n < 10 THEN <<Digits[n + 1]>>
    ELSE Decimal(n \div 10) \o <<Digits[(n % 10) + 1]>>

\* str(v): the decimal text of an int, the text itself of a str
str(v) == IF v.t = "int" THEN Decimal(v.n) ELSE v.s

\* the characters of the names and values, in the order of their code points
Alphabet == Digits \o <<"_", "a", "b", "c", "g", "r", "x">>
Ord(c) == CHOOSE i \in 1..Len(Alphabet) : Alphabet[i] = c

\* s1 < s2 of two str
RECURSIVE Less(_, _)
Less(s1, s2) ==
    IF s2 = <<>> THEN FALSE
    ELSE IF s1 = <<>> THEN TRUE
    ELSE IF Head(s1) = Head(s2) THEN Less(Tail(s1), Tail(s2))
    ELSE Ord(Head(s1)) < Ord(Head(s2))

\* sorted(names)
RECURSIVE SortedNames(_)
SortedNames(names) ==
    IF names = {} THEN <<>>
    ELSE LET first == CHOOSE n \in names : \A m \in names \ {n} : Less(n, m)
         IN  <<first>> \o SortedNames(names \ {first})

\* 'arg_%d' % q
ArgName(q) == <<"a", "r", "g", "_">> \o Decimal(q)

\* params of _default_vary_on: kwargs, and every positional value under the
\* q-th name of the signature (q from 0) unless a keyword took the name
Params(args_names, args, kwargs) ==
    LET NameAt(q) == IF q < Len(args_names) THEN args_names[q + 1] ELSE ArgName(q)
        positional == {NameAt(q) : q \in 0..(Len(args) - 1)}
    IN  [name \in DOMAIN kwargs \cup positional |->
            IF name \in DOMAIN kwargs THEN kwargs[name]
            ELSE args[(CHOOSE q \in 0..(Len(args) - 1) : NameAt(q) = name) + 1]]

\* result.extend([k, v]) for k, v in sorted(params.items()), from the i-th on
RECURSIVE Extended(_, _, _)
Extended(params, names, i) ==
    IF i > Len(names) THEN <<>>
    ELSE <<PyStr(names[i]), params[names[i]]>> \o Extended(params, names, i + 1)

\* _default_vary_on(func, *args, **kwargs), without SQL_ALCHEMY_BASE
default_vary_on(args_names, args, kwargs) ==
    LET Sorted(params) == Extended(params, SortedNames(DOMAIN params), 1)
    IN  Sorted(Params(args_names, args, kwargs))

\* reduce(operator.add, map(str, params))
RECURSIVE Reduced(_)
Reduced(params) ==
    IF params = <<>> THEN <<>> ELSE str(Head(params)) \o Reduced(Tail(params))

\* sha1(text).hexdigest(): taken as free of collisions
Sha1(text) == [sha1 |-> text]

\* get_slot_name(func, args, kwargs): prefix, slot name and the digest of the
\* joined parameters, the three joined with ':'
get_slot_name(args_names, args, kwargs) ==
    LET Digest(params) == IF params # <<>> THEN Sha1(Reduced(params)) ELSE <<>>
    IN  <<"prefix", "slot", Digest(default_vary_on(args_names, args, kwargs))>>

\* the keys of the calls f(x) of the function f(x) with an int x
SlotNames == [x \in Args |-> get_slot_name(<< <<"x">> >>, <<PyInt(x)>>, <<>>)]
SlotOf(x) == SlotNames[x]

Keys == {SlotOf(x) : x \in Args}

\* cache.get: None for an absent key, and for a key that holds None
cache_get(key) == memcached[key]

\* cache.set and cache.delete on the server
cache_set(key, value) == [memcached EXCEPT ![key] = value]
cache_delete(key) == [memcached EXCEPT ![key] = None]

\* no call returned yet
NotCalled == [called |-> FALSE, result |-> None]

\* no call in flight; a call in flight holds what it saw of its key when it
\* began and whether its key was left alone since
NoCoroutine ==
    [pc |-> "idle", args |-> 0, stale |-> FALSE, after |-> NotCalled, first |-> TRUE]

\* a returned call: its argument, its result, whether the key was found,
\* whether the function ran inside the call, whether a callback was spawned,
\* whether a background computation of the key had completed before, whether
\* the call began after an invalidate and found the value stored before it,
\* and the earlier call it follows
Returned(x, result, hit, inline, spawned, began_stale, after) ==
    [args |-> x, result |-> result, hit |-> hit, inline |-> inline,
     spawned |-> spawned, completed |-> completed[SlotOf(x)],
     stale |-> hit /\ began_stale /\ stale[SlotOf(x)], after |-> after]

InitCache ==
    /\ db = Database(NULL, 1, NULL, 1)
    /\ pc = "idle"
    /\ arg_model = NoName
    /\ QueryIdle
    /\ IncludeIdle
    /\ SerializeIdle
    /\ cached \in [is_sync : BOOLEAN, work_in_background : BOOLEAN,
                   default_result : DefaultResults]
    /\ func \in Functions
    /\ memcached = [key \in Keys |-> None]
    /\ callbacks = <<>>
    /\ coroutine = NoCoroutine
    /\ completed = [key \in Keys |-> FALSE]
    /\ last_call = NoDoc
    /\ unawaited = {}
    /\ stale = [key \in Keys |-> FALSE]
    /\ returned = [key \in Keys |-> NotCalled]
    /\ KeyIdle
    /\ ParseIdle

\* the call in flight after the value of key was stored or deleted: it no
\* longer reads the value its key held when it began
Overwritten(key) ==
    IF coroutine.pc # "idle" /\ SlotOf(coroutine.args) = key
    THEN [coroutine EXCEPT !.stale = FALSE, !.after = NotCalled, !.first = FALSE]
    ELSE coroutine

\* the call in flight after invalidate or update_cache was called on key
Interrupted(key) ==
    IF coroutine.pc # "idle" /\ SlotOf(coroutine.args) = key
    THEN [coroutine EXCEPT !.after = NotCalled, !.first = FALSE]
    ELSE coroutine

\* the first result returned for the key since it was last disturbed, kept
\* for the calls that compute inside the call
FirstReturned(key, result) ==
    IF returned[key].called \/ cached.work_in_background THEN returned
    ELSE [returned EXCEPT ![key] = [called |-> TRUE, result |-> result]]

\* the body both wrappers share, after the cache answered with result; began
\* is what the call saw of its key when it began
Wrapper(x, result, next_pc, began) ==
    LET key == SlotOf(x) IN
    IF result # None
    THEN /\ last_call' = Returned(x, result, TRUE, FALSE, FALSE, began.stale, began.after)
         /\ returned' = FirstReturned(key, result)
         /\ coroutine' = NoCoroutine
         /\ UNCHANGED <<memcached, callbacks, stale>>
    ELSE IF cached.work_in_background
    THEN /\ Len(callbacks) < MaxPending
         /\ callbacks' = Append(callbacks, x)
         /\ last_call' = Returned(x, cached.default_result, FALSE, FALSE, TRUE,
                                  began.stale, began.after)
         /\ returned' = FirstReturned(key, cached.default_result)
         /\ coroutine' = NoCoroutine
         /\ UNCHANGED <<memcached, stale>>
    ELSE /\ memcached' = cache_set(key, func[x])
         /\ stale' = [stale EXCEPT ![key] = FALSE]
         /\ IF next_pc = "idle"
            THEN /\ last_call' = Returned(x, func[x], FALSE, TRUE, FALSE,
                                          began.stale, began.after)
                 /\ returned' = FirstReturned(key, func[x])
                 /\ coroutine' = NoCoroutine
            ELSE /\ coroutine' = [coroutine EXCEPT !.pc = next_pc]
                 /\ UNCHANGED <<last_call, returned>>
         /\ UNCHANGED callbacks

\* wrapped(*args): the synchronous wrapper, one call
wrapped(x) ==
    /\ cached.is_sync
    /\ Wrapper(x, cache_get(SlotOf(x)), "idle",
               [stale |-> stale[SlotOf(x)], after |-> returned[SlotOf(x)]])
    /\ UNCHANGED <<db, key_vars, parse_vars, pc, arg_model, query_vars, include_vars, serialize_vars,
                   cached, func, completed, unawaited>>

\* async_wrapped(*args) up to its first await: the get is sent
async_wrapped(x) ==
    /\ ~cached.is_sync
    /\ coroutine.pc = "idle"
    /\ coroutine' = [pc |-> "get", args |-> x, stale |-> stale[SlotOf(x)],
                     after |-> returned[SlotOf(x)], first |-> TRUE]
    /\ UNCHANGED <<db, key_vars, parse_vars, pc, arg_model, query_vars, include_vars, serialize_vars,
                   cached, func, memcached, callbacks, completed, last_call,
                   unawaited, stale, returned>>

\* async_wrapped resumes with the answer of the get, up to the return or to
\* the await of the set
async_wrapped_get ==
    /\ coroutine.pc = "get"
    /\ Wrapper(coroutine.args, cache_get(SlotOf(coroutine.args)), "set", coroutine)
    /\ UNCHANGED <<db, key_vars, parse_vars, pc, arg_model, query_vars, include_vars, serialize_vars,
                   cached, func, completed, unawaited>>

\* async_wrapped resumes after the set and returns the computed result
async_wrapped_set ==
    /\ coroutine.pc = "set"
    /\ last_call' = Returned(coroutine.args, func[coroutine.args], FALSE, TRUE, FALSE,
                             FALSE, coroutine.after)
    /\ returned' = IF coroutine.first
                   THEN FirstReturned(SlotOf(coroutine.args), func[coroutine.args])
                   ELSE returned
    /\ coroutine' = NoCoroutine
    /\ UNCHANGED <<db, key_vars, parse_vars, pc, arg_model, query_vars, include_vars, serialize_vars,
                   cached, func, memcached, callbacks, completed, unawaited, stale>>

\* the IO loop runs the oldest spawned do_work: the function runs and its
\* result is stored
do_work ==
    /\ callbacks # <<>>
    /\ LET x == Head(callbacks) IN
        /\ memcached' = cache_set(SlotOf(x), func[x])
        /\ completed' = [completed EXCEPT ![SlotOf(x)] = TRUE]
        /\ stale' = [stale EXCEPT ![SlotOf(x)] = FALSE]
        /\ coroutine' = Overwritten(SlotOf(x))
    /\ callbacks' = Tail(callbacks)
    /\ UNCHANGED <<db, key_vars, parse_vars, pc, arg_model, query_vars, include_vars, serialize_vars,
                   cached, func, last_call, unawaited, returned>>

\* invalidate(*args): cache.delete(key) is carried out in the call;
\* async_cache.delete(key) is sent without await and is carried out later,
\* if at all
invalidate(x) ==
    /\ IF cached.is_sync
       THEN /\ memcached' = cache_delete(SlotOf(x))
            /\ stale' = [stale EXCEPT ![SlotOf(x)] = FALSE]
            /\ UNCHANGED unawaited
       ELSE /\ unawaited' = unawaited \cup
                    {[op |-> "delete", key |-> SlotOf(x), value |-> None]}
            /\ stale' = [stale EXCEPT ![SlotOf(x)] =
                                            memcached[SlotOf(x)] # None]
            /\ UNCHANGED memcached
    /\ completed' = [completed EXCEPT ![SlotOf(x)] = FALSE]
    /\ returned' = [returned EXCEPT ![SlotOf(x)] = NotCalled]
    /\ coroutine' = Interrupted(SlotOf(x))
    /\ UNCHANGED <<db, key_vars, parse_vars, pc, arg_model, query_vars, include_vars, serialize_vars,
                   cached, func, callbacks, last_call>>

\* update_cache(new_value, *args): cache.set(key, new_value) is carried out in
\* the call; async_cache.set(key, new_value) is sent without await
update_cache(new_value, x) ==
    /\ IF cached.is_sync
       THEN /\ memcached' = cache_set(SlotOf(x), new_value)
            /\ stale' = [stale EXCEPT ![SlotOf(x)] = FALSE]
            /\ UNCHANGED unawaited
       ELSE /\ unawaited' = unawaited \cup
                    {[op |-> "set", key |-> SlotOf(x), value |-> new_value]}
            /\ UNCHANGED <<memcached, stale>>
    /\ completed' = [completed EXCEPT ![SlotOf(x)] = FALSE]
    /\ returned' = [returned EXCEPT ![SlotOf(x)] = NotCalled]
    /\ coroutine' = Interrupted(SlotOf(x))
    /\ UNCHANGED <<db, key_vars, parse_vars, pc, arg_model, query_vars, include_vars, serialize_vars,
                   cached, func, callbacks, last_call>>

\* the IO loop carries out a cache operation that was sent without await
Unawaited(operation) ==
    /\ operation \in unawaited
    /\ unawaited' = unawaited \ {operation}
    /\ memcached' = cache_set(operation.key, operation.value)
    /\ stale' = [stale EXCEPT ![operation.key] = FALSE]
    /\ completed' = [completed EXCEPT ![operation.key] = FALSE]
    /\ returned' = [returned EXCEPT ![operation.key] = NotCalled]
    /\ coroutine' = Overwritten(operation.key)
    /\ UNCHANGED <<db, key_vars, parse_vars, pc, arg_model, query_vars, include_vars, serialize_vars,
                   cached, func, callbacks, last_call>>

\* the timeout of a stored key elapses
Expire(key) ==
    /\ memcached[key] # None
    /\ memcached' = cache_delete(key)
    /\ completed' = [completed EXCEPT ![key] = FALSE]
    /\ stale' = [stale EXCEPT ![key] = FALSE]
    /\ returned' = [returned EXCEPT ![key] = NotCalled]
    /\ coroutine' = Overwritten(key)
    /\ UNCHANGED <<db, key_vars, parse_vars, pc, arg_model, query_vars, include_vars, serialize_vars,
                   cached, func, callbacks, last_call, unawaited>>

NextCache ==
    \/ \E x \in Args : wrapped(x)
    \/ \E x \in Args : async_wrapped(x)
    \/ async_wrapped_get
    \/ async_wrapped_set
    \/ do_work
    \/ \E x \in Args : invalidate(x)
    \/ \E x \in Args, new_value \in NewValues : update_cache(new_value, x)
    \/ \E operation \in unawaited : Unawaited(operation)
    \/ \E key \in Keys : Expire(key)

\* calls of a cached function, its background work and the cache's upkeep
SpecCache == InitCache /\ [][NextCache]_vars

(* Properties of the Cached decorator *)

\* a call returned under work_in_background=True
BackgroundCall == last_call # NoDoc /\ cached.work_in_background

\* C20: with work_in_background=True a call whose key is absent returns
\* default_result, does not run the function inside the call and spawns the
\* computation on the IO loop; a call made after that computation completed,
\* before the timeout, returns the function's value.
C20_BackgroundCallDefersTheWork ==
    BackgroundCall =>
        /\ ~last_call.hit =>
            /\ last_call.result = cached.default_result
            /\ ~last_call.inline
            /\ last_call.spawned
        /\ last_call.completed => last_call.result = func[last_call.args]

\* C21: the first call made after invalidate(args) does not return a value
\* that was cached before the invalidation, in sync mode and in async mode.
C21_InvalidatedValueIsNotReturned ==
    last_call # NoDoc => ~last_call.stale

-----------------------------------------------------------------------------
(* The kind checks of the attribute level *)

\* Customer.first_order: a one-to-one, declared as a one-to-many with
\* uselist=False
OneToOne ==
    LET p == SerializedProperties.Customer.first_order
    IN  [kind |-> p.kind, cls |-> "Customer", alias |-> 0, key |-> "first_order",
         direction |-> p.direction, target |-> p.target,
         local |-> p.local, remote |-> p.remote, secondary |-> p.secondary,
         sec_local |-> p.sec_local, sec_remote |-> p.sec_remote,
         local_attr |-> p.local_attr, remote_attr |-> p.remote_attr]

\* the scalar subquery length_operator builds for Customer.orders
CountElement ==
    ColumnElement(Count(JoinFrom(GetAttr("Customer", 0, Str("orders"))),
                        JoinCondition(GetAttr("Customer", 0, Str("orders")))))

\* the attributes of the mapped classes, a one-to-one and a column expression
Attributes ==
    UNION {{GetAttr(cls, 0, Str(name)) : name \in DOMAIN Schema[cls]} : cls \in Entities}
        \cup {OneToOne, CountElement}

SubfieldKeys == {Str("id"), Str("name"), Str("customer"), <<"customer", Dot, "name">>}

AttributeKeys == primitive_operators \cup relationship_operator_keys \cup SubfieldKeys

Operands ==
    {Scalar(1), Dict1(Str("$eq"), Scalar(1)), Dict1(Str("id"), Scalar(1)),
     Dict1(Str("name"), Scalar(1))}

\* key defaults to attribute.key
KeyOf(attribute) == IF IsColumnElement(attribute) THEN "count" ELSE attribute.key

\* a call of get_attribute_filter_expr(attribute, {op: operand})
AttributeFilter ==
    /\ pc = "idle"
    /\ \E attribute \in Attributes, op \in AttributeKeys, operand \in Operands :
        /\ arg_attribute' = attribute
        /\ arg_criteria' = Dict1(op, operand)
        /\ ret_filter' = get_attribute_filter_expr(attribute, Dict1(op, operand),
                                                   KeyOf(attribute))
    /\ pc' = "compiled"
    /\ UNCHANGED <<db, key_vars, parse_vars, arg_model, arg_order_by, ret_order_by, include_vars,
                   serialize_vars, cache_vars>>

\* calls of the attribute level with one key
SpecAttribute == InitFilter /\ [][AttributeFilter]_vars

Compiled == pc = "compiled"

\* the kinds of attribute the claims speak of
IsScalarColumn(attribute) == attribute.kind \in {"column", "element"}
IsManyToOne(attribute) ==
    attribute.kind = "relationship" /\ attribute.direction = "MANYTOONE"
SingleValued(attribute) ==
    /\ attribute.kind = "relationship"
    /\ <<attribute.cls, attribute.key>> \in ScalarRelationships
IsToMany(attribute) ==
    \/ attribute.kind = "proxy"
    \/ /\ attribute.kind = "relationship"
       /\ attribute.direction \in {"ONETOMANY", "MANYTOMANY"}
       /\ ~SingleValued(attribute)

\* some operand makes the attribute level compile the key on the attribute
Accepts(attribute, op) ==
    \E operand \in Operands :
        get_attribute_filter_expr(attribute, Dict1(op, operand), KeyOf(attribute)).ok

\* some subfield key is compiled on the attribute
AcceptsSubfield(attribute) == \E op \in SubfieldKeys : Accepts(attribute, op)

TheOperator == arg_criteria.kv[1][1]

-----------------------------------------------------------------------------
(* serialize_relations call by call: every call of the recursion is a frame  *)
(* of the stack                                                              *)

\* a call of serialize_relations(model_class, entities, include_mask) before
\* the first name of its loop
Frame(model_class, entities, include_mask) ==
    [model_class |-> model_class, entities |-> entities,
     include_mask |-> include_mask, i |-> 1, relations |-> <<>>]

Top == stack[Len(stack)]

\* name, of the loop over include_mask in the frame
NameOf(frame) == frame.include_mask.kv[frame.i][1]

\* the recursion handed an empty mask
NoSubMask(frame) == Leaf

\* mask = include_mask[name]
SubMask(frame) == frame.include_mask.kv[frame.i][2]

\* getattr(model_class, name).property of a relationship
IsRelationAttr(model_class, name) ==
    /\ Len(name) = 1
    /\ name[1] \in DOMAIN class_mapper(model_class)
    /\ class_mapper(model_class)[name[1]].kind = "relationship"

\* foreign_key of the name the frame is at
ForeignKey(frame) ==
    IF class_mapper(frame.model_class)[NameOf(frame)[1]].direction = "MANYTOMANY"
    THEN find_association_proxy(frame.model_class, NameOf(frame)[1])
    ELSE Ok(class_mapper(frame.model_class)[NameOf(frame)[1]].local)

\* the exception leaves every call in progress
Raised(r) ==
    /\ stack' = <<>>
    /\ ret_relations' = r
    /\ pc' = "returned"
    /\ UNCHANGED depth

\* resource.py: self.serialize_relations(results, include) is called, of a
\* resource without fields_conf
SerializeRelationsCall ==
    /\ pc = "idle"
    /\ \E m \in Entities : \E ids \in SUBSET {r.id : r \in db[m]} :
       \E mask \in Masks(m) :
        /\ arg_model' = m
        /\ arg_entities' = Ascending(ids)
        /\ arg_mask' = mask
        /\ stack' = <<Frame(m, ids, mask)>>
    /\ arg_fields_conf' = NoFieldsConf
    /\ load_order' = "asc"
    /\ depth' = 0
    /\ pc' = "running"
    /\ UNCHANGED <<db, key_vars, parse_vars, query_vars, include_vars, cache_vars,
                   ret_relations, ret_items, ret_many, shared, remaining>>

\* the loop of the innermost call reaches a name: the attribute is looked up,
\* the related objects are collected and serialize_relations is called on them
SerializeRelationsEnter ==
    /\ pc = "running"
    /\ Top.i <= Len(Top.include_mask.kv)
    /\ IF ~IsRelationAttr(Top.model_class, NameOf(Top))
       THEN Raised(Raise("AttributeError"))
       ELSE IF ~ForeignKey(Top).ok
       THEN Raised(ForeignKey(Top))
       ELSE /\ stack' = Append(stack,
                    Frame(class_mapper(Top.model_class)[NameOf(Top)[1]].target,
                          RelationItems(db, Top.model_class, Top.entities,
                                        NameOf(Top)[1], load_order),
                          SubMask(Top)))
            /\ depth' = IF Len(stack) > depth THEN Len(stack) ELSE depth
            /\ UNCHANGED <<pc, ret_relations>>
    /\ UNCHANGED <<db, key_vars, parse_vars, arg_model, query_vars, include_vars, cache_vars,
                   arg_entities, arg_mask, arg_fields_conf, load_order,
                   ret_items, ret_many, shared, remaining>>

\* the loop of the innermost call is over: it returns its relations; the
\* caller serializes the related objects with them and stores the record of
\* the name
SerializeRelationsReturn ==
    /\ pc = "running"
    /\ Top.i > Len(Top.include_mask.kv)
    /\ IF Len(stack) = 1
       THEN /\ stack' = <<>>
            /\ ret_relations' = Ok(Top.relations)
            /\ pc' = "returned"
            /\ UNCHANGED depth
       ELSE LET Stored(caller, record) ==
                    /\ stack' = [SubSeq(stack, 1, Len(stack) - 1) EXCEPT
                                    ![Len(stack) - 1] =
                                        [caller EXCEPT
                                            !.i = @ + 1,
                                            !.relations = Append(@, record)]]
                    /\ UNCHANGED <<pc, ret_relations, depth>>
                Record(caller, items) ==
                    IF ~AllOk(items) THEN Raised(FirstError(items))
                    ELSE Stored(caller,
                                [name |-> NameOf(caller), items |-> Vals(items),
                                 relations |-> Top.relations,
                                 meta |-> RelationMeta(caller.model_class,
                                                       NameOf(caller)[1],
                                                       ForeignKey(caller).val)])
                RelatedItems(caller, listed) ==
                    Record(caller,
                           [i \in 1..Len(listed) |->
                                serialize(db, Top.model_class, listed[i],
                                          arg_fields_conf, Top.relations)])
            IN  RelatedItems(stack[Len(stack) - 1], Iterate(Top.entities, load_order))
    /\ UNCHANGED <<db, key_vars, parse_vars, arg_model, query_vars, include_vars, cache_vars,
                   arg_entities, arg_mask, arg_fields_conf, load_order,
                   ret_items, ret_many, shared, remaining>>

NextRelations ==
    \/ SerializeRelationsCall
    \/ SerializeRelationsEnter
    \/ SerializeRelationsReturn

\* a call of serialize_relations that is never suspended: the interpreter
\* keeps running it
SpecRelations == InitSerialize /\ [][NextRelations]_vars /\ WF_vars(NextRelations)

Running == pc = "running"
Finished == pc = "returned"

\* the depth of a mask: the longest chain of nested names
RECURSIVE MaskDepth(_)
MaskDepth(mask) ==
    IF mask.kv = <<>> THEN 0
    ELSE LET deepest == CHOOSE i \in 1..Len(mask.kv) :
                \A j \in 1..Len(mask.kv) :
                    MaskDepth(mask.kv[j][2]) <= MaskDepth(mask.kv[i][2])
         IN  1 + MaskDepth(mask.kv[deepest][2])

\* the call by call run returns what the function returns as a whole
StepsAgree ==
    Finished =>
        ret_relations = serialize_relations(db, arg_model, Range(arg_entities),
                                            arg_mask, arg_fields_conf, TRUE,
                                            load_order)

\* C23: a call of serialize_relations never nests deeper than the depth of
\* its mask, and it ends: it returns or raises, and when it returns its
\* deepest nesting was the depth of the mask; also where the mask follows a
\* cycle of the relationships.
C23_SerializeRelationsTerminates ==
    /\ [](Running => Len(stack) <= 1 + MaskDepth(arg_mask))
    /\ (Running ~> (Finished /\ stack = <<>>
                    /\ (ret_relations.ok => depth = MaskDepth(arg_mask))))

\* a mask that leads from Customer back to Customer was serialized to its
\* depth for a customer that has the related objects
C23_Witness ==
    /\ Finished
    /\ ret_relations.ok
    /\ arg_model = "Customer"
    /\ arg_mask = Mask1("last_order", Mask1("customer", Mask1("wish", Leaf)))
    /\ depth = 3
    /\ ret_relations.val[1].relations[1].items # <<>>

-----------------------------------------------------------------------------
(* One set of relation records serving serialize for every entity of a      *)
(* result, the writes of serialize applied to the objects they are made on  *)

\* the objects the loop over relations has at hand for one rel_item: the
\* dict being built, the dict held by the relation record, and its copy
Objects(item, rel_item) ==
    [item |-> item, rel_item |-> rel_item, copy |-> <<>>, ok |-> TRUE]

\* the writes made on rel_item
WrittenRelItem == "rel_item"

\* the object every write of the loop is made on: item.setdefault(k, []),
\* item.pop(meta['fk']), item[k] = rel_item
Written == "item"

\* item.setdefault(k, []).append(v)
SetDefaultAppend(o, k, v) ==
    [o EXCEPT ![Written] = Set(@, k, (IF k \in DOMAIN @ THEN @[k] ELSE <<>>) \o <<v>>)]

\* item.pop(f): KeyError where the key is absent
PopKey(o, f) ==
    IF f \notin DOMAIN o[Written] THEN [o EXCEPT !.ok = FALSE]
    ELSE [o EXCEPT ![Written] = Pop(@, f)]

\* item[k] = v
SetItem(o, k, v) == [o EXCEPT ![Written] = Set(@, k, v)]

\* the body of the loop over rel_items in the one-to-many branch
ManyBody(o, k, meta) ==
    IF Get(o.item, meta.fk) = Get(o.rel_item, meta.fk_pair)
    THEN SetDefaultAppend(o, k, o.rel_item)
    ELSE o

\* the body of the loop over rel_items in the one-to-one branch:
\* rel_item = rel_item.copy() comes first
OneBody(o, k, meta) ==
    LET Assigned(p) == IF ~p.ok THEN p ELSE SetItem(p, k, p.copy)
        Copied(c) ==
            IF Get(c.item, meta.fk) = Get(c.copy, meta.fk_pair)
            THEN Assigned(PopKey(c, meta.fk))
            ELSE c
    IN  Copied([o EXCEPT !.copy = o.rel_item])

\* for rel_item in rel_items, from the i-th on: the item and the record after
\* the loop
RECURSIVE WriteItems(_, _, _)
WriteItems(item, rel, i) ==
    IF i > Len(rel.items) \/ ~item.ok THEN [item |-> item, rel |-> rel]
    ELSE LET After(o) ==
                WriteItems(IF o.ok THEN Ok(o.item) ELSE Raise("KeyError"),
                           [rel EXCEPT !.items[i] = o.rel_item], i + 1)
         IN  After(IF rel.meta.o2m /\ ~rel.meta.o2o
                   THEN ManyBody(Objects(item.val, rel.items[i]), rel.name[1], rel.meta)
                   ELSE OneBody(Objects(item.val, rel.items[i]), rel.name[1], rel.meta))

\* the body of the loop over relations.items()
WriteRelation(item, rel) ==
    IF rel.meta = NoMeta THEN [item |-> Raise("AttributeError"), rel |-> rel]
    ELSE IF /\ Truthy(rel.meta.fk) /\ Truthy(rel.meta.fk_pair)
            /\ (rel.meta.o2m \/ rel.meta.o2o)
    THEN WriteItems(item, rel, 1)
    ELSE [item |-> item, rel |-> rel]

\* for k, v in relations.items(), from the j-th on
RECURSIVE WriteRelations(_, _, _)
WriteRelations(item, relations, j) ==
    IF j > Len(relations) \/ ~item.ok THEN [item |-> item, relations |-> relations]
    ELSE LET After(w) ==
                WriteRelations(w.item, [relations EXCEPT ![j] = w.rel], j + 1)
         IN  After(WriteRelation(item, relations[j]))

\* serialize(model, fields_conf, relations): the item returned and the
\* relation records as the call leaves them
serialize_writing(d, cls, id, fields_conf, relations) ==
    WriteRelations(serialize(d, cls, id, fields_conf, <<>>), relations, 1)

\* resource.py: relations = self.serialize_relations(results, include)
ReuseCall ==
    /\ pc = "idle"
    /\ \E m \in Entities : \E ids \in SUBSET {r.id : r \in db[m]} :
       \E mask \in Masks(m) : \E fc \in FieldsConfs : \E o \in {"asc", "desc"} :
        LET Called(relations) ==
                /\ ret_relations' = relations
                /\ shared' = relations
                /\ remaining' = IF relations.ok THEN ids ELSE {}
                /\ pc' = IF relations.ok /\ ids # {} THEN "reusing" ELSE "reused"
        IN  /\ arg_model' = m
            /\ arg_mask' = mask
            /\ arg_fields_conf' = fc
            /\ load_order' = o
            /\ Called(serialize_relations(db, m, ids, mask, fc, TRUE, o))
    /\ UNCHANGED <<db, key_vars, parse_vars, query_vars, include_vars, cache_vars, arg_entities,
                   ret_items, ret_many, stack, depth>>

\* serialize(x, fields_conf, relations) of one more entity of the result, the
\* entities taken in any order
SerializeEntity ==
    /\ pc = "reusing"
    /\ \E id \in remaining :
        LET Done(out) ==
                /\ ret_items' = Append(ret_items, out.item)
                /\ shared' = Ok(out.relations)
                /\ remaining' = IF out.item.ok THEN remaining \ {id} ELSE {}
                /\ pc' = IF out.item.ok /\ remaining # {id} THEN "reusing" ELSE "reused"
        IN  /\ arg_entities' = Append(arg_entities, id)
            /\ Done(serialize_writing(db, arg_model, id, arg_fields_conf, shared.val))
    /\ UNCHANGED <<db, key_vars, parse_vars, arg_model, query_vars, include_vars, cache_vars, arg_mask,
                   arg_fields_conf, load_order, ret_relations, ret_many, stack, depth>>

NextReuse == ReuseCall \/ SerializeEntity

SpecReuse == InitSerialize /\ [][NextReuse]_vars

Reused == pc = "reused"

\* C24: the relation records handed to serialize are the same after every
\* call as serialize_relations returned them, items, nested relations and
\* meta, and every entity's item is what serialize makes of the entity and
\* those records alone, in whatever order the entities are serialized.
C24_RelationRecordsAreReusable ==
    pc \in {"reusing", "reused"} /\ ret_relations.ok =>
        /\ shared = ret_relations
        /\ \A n \in 1..Len(ret_items) :
            ret_items[n] = serialize(db, arg_model, arg_entities[n],
                                     arg_fields_conf, ret_relations.val)

\* two customers were serialized, the second before the first, with the same
\* records: both got a list of orders and an inlined first order
C24_Witness ==
    /\ Reused
    /\ arg_entities = <<2, 1>>
    /\ arg_model = "Customer"
    /\ AllOk(ret_items)
    /\ \A n \in 1..2 :
        {"orders", "first_order"} \subseteq DOMAIN ret_items[n].val

-----------------------------------------------------------------------------
(* The cache keys of two calls of one decorated function f(a, b)            *)

SignatureNames == << <<"a">>, <<"b">> >>

\* the values the calls are made with: an int and texts, the text of the int
\* among them
KeyValues ==
    {PyInt(1), PyStr(<<"1">>), PyStr(<<"a">>), PyStr(<<"a", "b">>),
     PyStr(<<"b", "c">>), PyStr(<<"c">>)}

\* **kwargs of a call that names a, b or both
Kwargs(names, v, w) == [name \in names |-> IF name = <<"a">> THEN v ELSE w]

\* f(v), f(v, w), f(v, b=w) and f(a=v, b=w)
Calls ==
    {[args |-> <<v>>, kwargs |-> <<>>] : v \in KeyValues}
        \cup {[args |-> <<v, w>>, kwargs |-> <<>>] : v \in KeyValues, w \in KeyValues}
        \cup {[args |-> <<v>>, kwargs |-> Kwargs({<<"b">>}, v, w)] :
                v \in KeyValues, w \in KeyValues}
        \cup {[args |-> <<>>, kwargs |-> Kwargs({<<"a">>, <<"b">>}, v, w)] :
                v \in KeyValues, w \in KeyValues}

InitKeys ==
    /\ db = Database(NULL, 1, NULL, 1)
    /\ pc = "idle"
    /\ arg_model = NoName
    /\ QueryIdle
    /\ IncludeIdle
    /\ SerializeIdle
    /\ CacheIdle
    /\ ParseIdle
    /\ arg_calls \in Calls \X Calls
    /\ ret_slots = <<>>

\* key = self.get_slot_name(func, args, kwargs), for each of the two calls
SlotNamesOfCalls ==
    /\ pc = "idle"
    /\ ret_slots' = [i \in 1..2 |->
            get_slot_name(SignatureNames, arg_calls[i].args, arg_calls[i].kwargs)]
    /\ pc' = "named"
    /\ UNCHANGED <<db, arg_model, query_vars, include_vars, serialize_vars,
                   cache_vars, arg_calls, parse_vars>>

SpecKeys == InitKeys /\ [][SlotNamesOfCalls]_vars

Named == pc = "named"

\* the arguments of a call: the value bound to each parameter
Bound(call) == Params(SignatureNames, call.args, call.kwargs)

\* C25: two calls whose arguments differ, in a value, in the type of a value
\* or in how the joined text splits into values, get different cache keys.
C25_KeysAreInjective ==
    Named =>
        (Bound(arg_calls[1]) # Bound(arg_calls[2]) => ret_slots[1] # ret_slots[2])

-----------------------------------------------------------------------------
(* More properties of the Cached decorator *)

\* C26: with work_in_background no two of the callbacks spawned and not yet
\* run compute the same key.
C26_OneBackgroundComputationPerKey ==
    \A i \in DOMAIN callbacks : \A j \in DOMAIN callbacks :
        i # j => SlotOf(callbacks[i]) # SlotOf(callbacks[j])

\* a call without work_in_background that follows a returned call of the
\* same arguments, the key not invalidated, updated or expired in between
SecondCall ==
    /\ last_call # NoDoc
    /\ ~cached.work_in_background
    /\ last_call.after.called

\* C27: without work_in_background the second of two calls with the same
\* arguments does not run the function and returns what the first returned,
\* whatever the function returns, None included.
C27_SecondCallIsServedFromTheCache ==
    SecondCall => ~last_call.inline /\ last_call.result = last_call.after.result

-----------------------------------------------------------------------------
(* RequestParser (reqparse.py): a parser of two arguments, a and b *)

\* a value of the namespace: a plain value, or an exception object
Plain(v) == [exc |-> NoName, v |-> v]
ExceptionObject(kind) == [exc |-> kind, v |-> None]

\* the exceptions a type converter raises
Exceptions == {"ValueError", "TypeError", "AttributeError", "KeyError"}

\* what the request holds under a name: nothing, a text that converts, a
\* text that does not, or the null of a JSON body
Absent == "absent"
Texts == {"5", "x", "null"}

\* str -> value converters: each converts '5' and raises its exception on 'x'
Converters ==
    {[text \in {"5", "x"} |-> IF text = "5" THEN Plain(5) ELSE ExceptionObject(e)] :
        e \in Exceptions}

\* Argument(name, default, required, ignore, type, store_missing, nullable),
\* with the operators, action and choices of the constructor's defaults
Arguments(name, types) ==
    [name : {name}, default : {Plain(0)}, required : BOOLEAN, ignore : BOOLEAN,
     type : types, store_missing : BOOLEAN, nullable : BOOLEAN]

\* the parsers: every Argument a, and an Argument b that is stored when
\* missing and is neither required, ignored nor refusing null
Parsers ==
    {[args |-> <<a, b>>, bundle_errors |-> bundle] :
        a \in Arguments("a", Converters),
        b \in {x \in Arguments("b", Converters) :
                    ~x.required /\ ~x.ignore /\ x.store_missing /\ x.nullable},
        bundle \in BOOLEAN}

Requests == [{"a", "b"} -> Texts \cup {Absent}]

\* Argument.source(request): the names the request holds
source(request) == {name \in DOMAIN request : request[name] # Absent}

\* Argument.convert(value, op): None is not cast; the converter is tried with
\* three, two and one arguments, and what the last try raises is raised
convert(arg, value) ==
    IF value = "null"
    THEN IF arg.nullable THEN Plain(None) ELSE ExceptionObject("ValueError")
    ELSE arg.type[value]

\* Argument.handle_validation_error(error, bundle_errors): return error, msg
handle_validation_error(arg, error) ==
    [value |-> error, found |-> [truthy |-> TRUE, names |-> {arg.name}]]

\* the sentinels _not_found and _found
NotFound == [truthy |-> FALSE, names |-> {}]
Found == [truthy |-> TRUE, names |-> {}]

\* Argument.parse(request, bundle_errors): value, found
parse(arg, request, bundle_errors) ==
    LET Results(converted) ==
            IF converted.exc # NoName
            THEN IF arg.ignore THEN <<>> ELSE <<converted>>
            ELSE <<converted>>
        Parse(results) ==
            IF results # <<>> /\ results[1].exc # NoName
            THEN handle_validation_error(arg, results[1])
            ELSE IF results = <<>> /\ arg.required /\ bundle_errors
            THEN handle_validation_error(arg, ExceptionObject("ValueError"))
            ELSE IF results = <<>>
            THEN [value |-> arg.default, found |-> NotFound]
            ELSE [value |-> results[1], found |-> Found]
    IN  Parse(IF arg.name \in source(request)
              THEN Results(convert(arg, request[arg.name]))
              ELSE <<>>)

\* the loop of parse_args over self.args, from the i-th argument on:
\* errors and namespace
RECURSIVE ParseLoop(_, _, _, _)
ParseLoop(parser, request, i, out) ==
    IF i > Len(parser.args) THEN out
    ELSE LET Stored(arg, value, found) ==
                IF found.truthy \/ arg.store_missing
                THEN [name \in DOMAIN out.namespace \cup {arg.name} |->
                        IF name = arg.name THEN value ELSE out.namespace[name]]
                ELSE out.namespace
             Handled(arg, parsed) ==
                IF parsed.value.exc = "ValueError"
                THEN [errors |-> out.errors \cup parsed.found.names,
                      namespace |-> Stored(arg, parsed.value, NotFound)]
                ELSE [errors |-> out.errors,
                      namespace |-> Stored(arg, parsed.value, parsed.found)]
         IN  ParseLoop(parser, request, i + 1,
                       Handled(parser.args[i],
                               parse(parser.args[i], request, parser.bundle_errors)))

\* RequestParser.parse_args(req): the namespace, or ArgsParsingError(errors)
parse_args(parser, request) ==
    LET Outcome(out) ==
            IF out.errors # {}
            THEN [ok |-> FALSE, errors |-> out.errors, namespace |-> [n \in {} |-> 0]]
            ELSE [ok |-> TRUE, errors |-> {}, namespace |-> out.namespace]
    IN  Outcome(ParseLoop(parser, request, 1,
                          [errors |-> {}, namespace |-> [n \in {} |-> 0]]))

InitParse ==
    /\ db = Database(NULL, 1, NULL, 1)
    /\ pc = "idle"
    /\ arg_model = NoName
    /\ QueryIdle
    /\ IncludeIdle
    /\ SerializeIdle
    /\ CacheIdle
    /\ KeyIdle
    /\ arg_parser \in Parsers
    /\ arg_request \in Requests
    /\ ret_args = NoResult

\* args = parser.parse_args(request)
ParseArgs ==
    /\ pc = "idle"
    /\ ret_args' = parse_args(arg_parser, arg_request)
    /\ pc' = "args_parsed"
    /\ UNCHANGED <<db, arg_model, query_vars, include_vars, serialize_vars,
                   cache_vars, key_vars, arg_parser, arg_request>>

SpecParse == InitParse /\ [][ParseArgs]_vars

ArgsParsed == pc = "args_parsed"

\* the arguments whose conversion failed, and was not to be ignored
Failed(parser, request) ==
    {parser.args[i].name : i \in {j \in 1..Len(parser.args) :
        /\ parser.args[j].name \in source(request)
        /\ ~parser.args[j].ignore
        /\ convert(parser.args[j], request[parser.args[j].name]).exc # NoName}}

ArgumentOf(parser, name) ==
    parser.args[CHOOSE i \in 1..Len(parser.args) : parser.args[i].name = name]

\* C28: parse_args either raises ArgsParsingError naming every argument
\* whose conversion failed, or returns a namespace whose values are converted
\* request values or defaults, none of them an exception object, whatever
\* the type of the exception the converter raised.
C28_NamespaceHoldsNoException ==
    ArgsParsed =>
        IF ret_args.ok
        THEN \A name \in DOMAIN ret_args.namespace :
                /\ ret_args.namespace[name].exc = NoName
                /\ \/ ret_args.namespace[name] = ArgumentOf(arg_parser, name).default
                   \/ /\ name \in source(arg_request)
                      /\ ret_args.namespace[name] =
                            convert(ArgumentOf(arg_parser, name), arg_request[name])
        ELSE Failed(arg_parser, arg_request) \subseteq ret_args.errors

-----------------------------------------------------------------------------
(* The join of serialize under a fields_conf *)

\* C29: whatever the fields_conf, an item attached to an entity under the
\* name of a one-to-many relation, or inlined under the name of a
\* single-valued one, is the item of a related entity whose remote join
\* column equals the entity's local join column.
C29_AttachedItemsJoinTheEntity ==
    SerializedAll =>
        \A i \in 1..Len(arg_entities) : \A r \in 1..Len(ret_relations.val) :
            LET Attached(rel, item, joined) ==
                    (rel.meta.o2m \/ rel.meta.o2o) /\ rel.name[1] \in DOMAIN item =>
                        IF rel.meta.o2m /\ ~rel.meta.o2o
                        THEN Range(item[rel.name[1]]) \subseteq Range(joined)
                        ELSE item[rel.name[1]] \in Range(joined)
            IN  Attached(ret_relations.val[r], ret_items[i].val,
                         JoinedItems(arg_entities[i], ret_relations.val[r], 1))

=============================================================================
